---------------------------- MODULE Spec2Model ----------------------------
(***************************************************************************)
(* A model of the ocelotmc server: the accept loop of main(), and the      *)
(* receive loop of Connection::handle_connection with its state-scoped     *)
(* packet dispatch (src/ocelot/src/main.rs), over the packet catalog of    *)
(* ocelot-protocol and the codecs the dispatch relies on.                  *)
(*                                                                         *)
(* Strings are sequences of Unicode code points, byte strings sequences    *)
(* of 0..255, Option<T> is <<>> (None) or <<x>> (Some(x)).                 *)
(***************************************************************************)
EXTENDS Integers, Sequences, FiniteSets, TLC

VARIABLES pc, state, player, sent_verify_token, out, log,
          inbound,  \* per connection: the client's bytes and how many were read
          wire,     \* per connection: the bytes written to the client
          codec     \* a codec call: its input, the bytes written, the value read back

vars == <<pc, state, player, sent_verify_token, out, log, inbound, wire, codec>>

(***************************************************************************)
(* Bounds of the model.                                                    *)
(***************************************************************************)
\* frames the server reads, all connections together
MaxFrames == 4

\* the codec calls take every i32 from -CodecRange to CodecRange, besides
\* the values at the edges of the encoded lengths
CodecRange == 130

\* The connections followed.  A connection's task owns its Connection, its
\* Player, its token and its stream, so every action below touches the
\* entry of one connection only.
Conns == {1}

None == <<>>
Some(x) == <<x>>

(***************************************************************************)
(* Strings.                                                                *)
(***************************************************************************)
\* the sum of the numbers of s, by halves (strings may be long)
RECURSIVE SumSeq(_)
SumSeq(s) ==
    IF s = <<>> THEN 0
    ELSE IF Len(s) = 1 THEN s[1]
    ELSE SumSeq(SubSeq(s, 1, Len(s) \div 2))
         + SumSeq(SubSeq(s, (Len(s) \div 2) + 1, Len(s)))

\* str.len(): the UTF-8 byte length
Utf8Len(s) ==
    SumSeq([i \in 1..Len(s) |->
        IF s[i] < 128 THEN 1 ELSE IF s[i] < 2048 THEN 2
        ELSE IF s[i] < 65536 THEN 3 ELSE 4])

\* str.encode_utf16().count()
Utf16Len(s) == SumSeq([i \in 1..Len(s) |-> IF s[i] < 65536 THEN 1 ELSE 2])

MAX_STRING_LENGTH == 32767

BoundedStringNew_Utf8Only(MAX, s) == ~ (Utf8Len(s) > (MAX * 3) + 3)

\* BoundedString::<MAX>::new(s) is Ok
BoundedStringNew(MAX, s) ==
    ~ (Utf16Len(s) > MAX \/ Utf16Len(s) > MAX_STRING_LENGTH
       \/ Utf8Len(s) > (MAX * 3) + 3)

Chars(n, ch) == [i \in 1..n |-> ch]

\* "Steve", "Alex", "localhost", "en_us"
Steve == <<83, 116, 101, 118, 101>>
Alex == <<65, 108, 101, 120>>
Localhost == <<108, 111, 99, 97, 108, 104, 111, 115, 116>>
EnUs == <<101, 110, 95, 117, 115>>

(***************************************************************************)
(* VarInt.                                                                 *)
(***************************************************************************)
SEGMENT_BITS == 127
CONTINUE_BITS == 128

\* i32::MIN (TLC's integers are 32 bits wide)
MinI32 == -2147483647 - 1

ShiftLeftI32_SignLost(segment, position) ==
    IF position < 28 THEN segment * (2 ^ position) ELSE (segment % 8) * (2 ^ 28)

\* ((segment as i32) << position), position in {0, 7, 14, 21, 28}: at 28 the
\* bits 4..6 of the segment are shifted out and bit 3 is the sign bit
ShiftLeftI32(segment, position) ==
    IF position < 28 THEN segment * (2 ^ position)
    ELSE ((segment % 8) * (2 ^ 28)) + (IF (segment \div 8) % 2 = 1 THEN MinI32 ELSE 0)

TooBig_OneByteLate(position, bits) == position >= bits + 7

\* position += 7; if position >= 32 (64 in VarLong): position is the value
\* after the addition
TooBig(position, bits) == position >= bits

\* the loop of VarInt::decode from its state (value, position) on the
\* unread bytes; the segments do not overlap, so |= adds
RECURSIVE VarIntDecodeLoop(_, _, _, _)
VarIntDecodeLoop(bytes, value, position, used) ==
    IF bytes = <<>> THEN [ok |-> FALSE, err |-> "UnexpectedEof", used |-> used]
    ELSE LET current_byte == Head(bytes)
             v == value + ShiftLeftI32(current_byte % (SEGMENT_BITS + 1), position)
         IN  IF (current_byte \div CONTINUE_BITS) % 2 = 0
             THEN [ok |-> TRUE, value |-> v, used |-> used + 1]
             ELSE IF TooBig(position + 7, 32)
                  THEN [ok |-> FALSE, err |-> "InvalidData", used |-> used + 1]
                  ELSE VarIntDecodeLoop(Tail(bytes), v, position + 7, used + 1)

VarIntDecode(bytes) == VarIntDecodeLoop(bytes, 0, 0, 0)

FitsSegment_ByteMask(v) == 0 <= v /\ v <= 255

\* (value & !SEGMENT_BITS) == 0 for value = v as u32
FitsSegment(v) == 0 <= v /\ v <= SEGMENT_BITS

\* value >>= 7 for value = v as u32: the logical shift of the bit pattern
\* of v, floor((v + 2^32) / 128), which is below 2^25
ShiftRightU32(v) ==
    IF v >= 0 THEN v \div 128 ELSE ((v - (v % 128)) \div 128) + (2 ^ 25)

\* VarInt::encode: the bytes the loop writes for VarInt(v)
RECURSIVE VarIntEncode(_)
VarIntEncode(v) ==
    IF FitsSegment(v) THEN <<v>>
    ELSE <<(v % (SEGMENT_BITS + 1)) + CONTINUE_BITS>> \o VarIntEncode(ShiftRightU32(v))

(***************************************************************************)
(* VarLong.  An i64 is the sequence of its 64 bits, lowest first (two's     *)
(* complement); `as u64` leaves the bits as they are.                       *)
(***************************************************************************)
Zeros(n) == [i \in 1..n |-> 0]

\* the value of bits as an unsigned number (for at most 8 bits)
BitsValue(bits) == SumSeq([i \in 1..Len(bits) |-> bits[i] * (2 ^ (i - 1))])

\* the 7 bits of a segment, lowest first
SegmentBits(segment) == [i \in 1..7 |-> (segment \div (2 ^ (i - 1))) % 2]

FitsSegment64_ByteMask(bits) == \A i \in 9..64 : bits[i] = 0

\* (value & !SEGMENT_BITS) == 0
FitsSegment64(bits) == \A i \in 8..64 : bits[i] = 0

\* value >>= 7 on a u64
ShiftRightU64(bits) == SubSeq(bits, 8, 64) \o Zeros(7)

\* VarLong::encode
RECURSIVE VarLongEncode(_)
VarLongEncode(bits) ==
    IF FitsSegment64(bits) THEN <<BitsValue(SubSeq(bits, 1, 8))>>
    ELSE <<BitsValue(SubSeq(bits, 1, 7)) + CONTINUE_BITS>>
         \o VarLongEncode(ShiftRightU64(bits))

OrShifted64_SignLost(value, segment, position) ==
    [i \in 1..64 |->
        IF position < i /\ i <= position + 7 /\ i < 64
        THEN IF value[i] = 1 \/ SegmentBits(segment)[i - position] = 1 THEN 1 ELSE 0
        ELSE value[i]]

\* value |= (segment as i64) << position, position in 0, 7 .. 63: the bits
\* shifted past bit 63 are lost
OrShifted64(value, segment, position) ==
    [i \in 1..64 |->
        IF position < i /\ i <= position + 7
        THEN IF value[i] = 1 \/ SegmentBits(segment)[i - position] = 1 THEN 1 ELSE 0
        ELSE value[i]]

\* the loop of VarLong::decode from its state (value, position)
RECURSIVE VarLongDecodeLoop(_, _, _, _)
VarLongDecodeLoop(bytes, value, position, used) ==
    IF bytes = <<>> THEN [ok |-> FALSE, err |-> "UnexpectedEof", used |-> used]
    ELSE LET current_byte == Head(bytes)
             v == OrShifted64(value, current_byte % (SEGMENT_BITS + 1), position)
         IN  IF (current_byte \div CONTINUE_BITS) % 2 = 0
             THEN [ok |-> TRUE, value |-> v, used |-> used + 1]
             ELSE IF TooBig(position + 7, 64)
                  THEN [ok |-> FALSE, err |-> "InvalidData", used |-> used + 1]
                  ELSE VarLongDecodeLoop(Tail(bytes), v, position + 7, used + 1)

VarLongDecode(bytes) == VarLongDecodeLoop(bytes, Zeros(64), 0, 0)

(***************************************************************************)
(* ResourceLocation.                                                       *)
(***************************************************************************)
Colon == 58

\* [a-z0-9._-] and [a-z0-9/._-]
NamespaceChar(ch) ==
    (97 <= ch /\ ch <= 122) \/ (48 <= ch /\ ch <= 57) \/ ch \in {46, 95, 45}
PathChar(ch) == NamespaceChar(ch) \/ ch = 47

\* ResourceLocation::from: "{namespace}:{path}" has to match
\* ^([a-z0-9._-]+:)?([a-z0-9/._-]+)$ ; the formatted string always holds a
\* colon and neither class does, so the namespace group has to be present
\* and to be the namespace
ResourceLocationFrom(namespace, path) ==
    IF /\ namespace # <<>> /\ \A i \in 1..Len(namespace) : NamespaceChar(namespace[i])
       /\ path # <<>> /\ \A i \in 1..Len(path) : PathChar(path[i])
    THEN [ok |-> TRUE, value |-> [namespace |-> namespace, path |-> path]]
    ELSE [ok |-> FALSE]

Minecraft == <<109, 105, 110, 101, 99, 114, 97, 102, 116>>

ResourceLocationFromVanilla(path) == ResourceLocationFrom(Minecraft, path)

\* Display for ResourceLocation
ResourceLocationToString(rl) == rl.namespace \o <<Colon>> \o rl.path

\* value.splitn(2, ':'): two parts when there is a colon, else one
ResourceLocationTryFrom(value) ==
    LET colons == {i \in 1..Len(value) : value[i] = Colon}
    IN  IF colons # {}
        THEN LET k == CHOOSE i \in colons : \A j \in colons : i <= j
             IN  ResourceLocationFrom(SubSeq(value, 1, k - 1),
                                      SubSeq(value, k + 1, Len(value)))
        ELSE ResourceLocationFromVanilla(value)

(***************************************************************************)
(* The static registry table (generated at build time from                 *)
(* synced_registries.json; names pass through ensure_namespace and the     *)
(* blobs are network NBT).  A small table of the same shape; one blob is   *)
(* long enough for a packet of more than 127 bytes.                        *)
(***************************************************************************)
SYNCED_REGISTRIES ==
    << [registry_id |-> \* minecraft:dimension_type
          <<109, 105, 110, 101, 99, 114, 97, 102, 116, 58, 100, 105, 109, 101,
            110, 115, 105, 111, 110, 95, 116, 121, 112, 101>>,
        entries |->
          << [name |-> \* minecraft:overworld
                <<109, 105, 110, 101, 99, 114, 97, 102, 116, 58, 111, 118, 101,
                  114, 119, 111, 114, 108, 100>>,
              nbt_bytes |-> <<10>> \o Chars(58, 1) \o <<0>>],
             [name |-> \* minecraft:the_nether
                <<109, 105, 110, 101, 99, 114, 97, 102, 116, 58, 116, 104, 101,
                  95, 110, 101, 116, 104, 101, 114>>,
              nbt_bytes |-> <<10, 1, 0, 1, 97, 0, 0>>] >>],
       [registry_id |-> \* minecraft:worldgen/biome
          <<109, 105, 110, 101, 99, 114, 97, 102, 116, 58, 119, 111, 114, 108,
            100, 103, 101, 110, 47, 98, 105, 111, 109, 101>>,
        entries |->
          << [name |-> \* minecraft:plains
                <<109, 105, 110, 101, 99, 114, 97, 102, 116, 58, 112, 108, 97,
                  105, 110, 115>>,
              nbt_bytes |-> <<10, 0>>] >>] >>

(***************************************************************************)
(* Packet identifiers, per state and direction.                            *)
(***************************************************************************)
HandshakePacket_ID == 0
LoginStartPacket_ID == 0
EncryptionResponsePacket_ID == 1
LoginPluginResponsePacket_ID == 2
LoginAcknowledgedPacket_ID == 3
CookieResponsePacket_ID == 4
ClientInformationPacket_ID == 0
PluginMessagePacket_ID == 2
AcknowledgeFinishConfigurationPacket_ID == 3
ServerboundKnownPacksPacket_ID == 7
ClientTickEndPacket_ID == 12

LoginSuccessPacket_ID == 2
FinishConfigurationPacket_ID == 3
RegistryDataPacket_ID == 7
KnownPacksPacket_ID == 14
GameEventPacket_ID == 38
LoginPacket_ID == 48
SynchronizePlayerPositionPacket_ID == 70

(***************************************************************************)
(* Typed packet decode.  A body is given by the values its fields decode   *)
(* to (complete = FALSE: the body ends before its last field); the result  *)
(* is [ok |-> FALSE] or [ok |-> TRUE, pkt |-> the packet].                 *)
(***************************************************************************)
Err == [ok |-> FALSE]
Ok(p) == [ok |-> TRUE, pkt |-> p]

\* #[codec(via = VarInt)] enum Intent { Status = 1, Login = 2, Transfer = 3 }
IntentDecode(v) ==
    IF v = 1 THEN [ok |-> TRUE, value |-> "Status"]
    ELSE IF v = 2 THEN [ok |-> TRUE, value |-> "Login"]
    ELSE IF v = 3 THEN [ok |-> TRUE, value |-> "Transfer"]
    ELSE [ok |-> FALSE]

BoolDecode_NonZeroTrue(b) == [ok |-> TRUE, value |-> b # 0]

\* bool::decode
BoolDecode(b) ==
    IF b = 0 THEN [ok |-> TRUE, value |-> FALSE]
    ELSE IF b = 1 THEN [ok |-> TRUE, value |-> TRUE]
    ELSE [ok |-> FALSE]

DeserializeHandshake(raw) ==
    IF ~ raw.complete THEN Err
    ELSE IF ~ BoundedStringNew(255, raw.server_address) THEN Err
    ELSE IF ~ IntentDecode(raw.intent).ok THEN Err
    ELSE Ok([protocol_version |-> raw.protocol_version,
             server_address |-> raw.server_address,
             server_port |-> raw.server_port,
             intent |-> IntentDecode(raw.intent).value])

DeserializeLoginStart(raw) ==
    IF ~ raw.complete THEN Err
    ELSE IF ~ BoundedStringNew(16, raw.name) THEN Err
    ELSE Ok([name |-> raw.name, player_uuid |-> raw.player_uuid])

DeserializeEncryptionResponse(raw) ==
    IF ~ raw.complete THEN Err
    ELSE Ok([shared_secret |-> raw.shared_secret, verify_token |-> raw.verify_token])

\* chat_mode, main_hand and particle_status are enums via VarInt with the
\* discriminants 0..2, 0..1 and 0..2
DeserializeClientInformation(raw) ==
    IF ~ raw.complete THEN Err
    ELSE IF ~ BoundedStringNew(16, raw.locale) THEN Err
    ELSE IF raw.chat_mode \notin 0..2 THEN Err
    ELSE IF ~ BoolDecode(raw.chat_colors).ok THEN Err
    ELSE IF raw.main_hand \notin 0..1 THEN Err
    ELSE IF ~ BoolDecode(raw.enable_text_filtering).ok THEN Err
    ELSE IF ~ BoolDecode(raw.allow_server_listings).ok THEN Err
    ELSE IF raw.particle_status \notin 0..2 THEN Err
    ELSE Ok([locale |-> raw.locale, view_distance |-> raw.view_distance,
             chat_mode |-> raw.chat_mode,
             chat_colors |-> BoolDecode(raw.chat_colors).value,
             displayed_skin_parts |-> raw.displayed_skin_parts,
             main_hand |-> raw.main_hand,
             enable_text_filtering |-> BoolDecode(raw.enable_text_filtering).value,
             allow_server_listings |-> BoolDecode(raw.allow_server_listings).value,
             particle_status |-> raw.particle_status])

\* ResourceLocation as a packet field: a BoundedString<32767> of its string form
ResourceLocationDecode(s) ==
    IF ~ BoundedStringNew(32767, s) THEN [ok |-> FALSE]
    ELSE ResourceLocationTryFrom(s)

DeserializePluginMessage(raw) ==
    IF ~ raw.complete THEN Err
    ELSE IF ~ ResourceLocationDecode(raw.channel).ok THEN Err
    ELSE Ok([channel |-> ResourceLocationDecode(raw.channel).value, data |-> raw.data])

\* PrefixedArray<KnownPack>: a VarInt size, then size items; bytes after
\* them stay unread
DeserializeKnownPacks(raw) ==
    IF ~ raw.complete THEN Err
    ELSE IF raw.size < 0 \/ raw.size > Len(raw.items) THEN Err
    ELSE IF \E i \in 1..raw.size :
               ~ (/\ BoundedStringNew(32767, raw.items[i].namespace)
                  /\ BoundedStringNew(32767, raw.items[i].id)
                  /\ BoundedStringNew(32767, raw.items[i].version)) THEN Err
    ELSE Ok([known_packs |-> SubSeq(raw.items, 1, raw.size)])

(***************************************************************************)
(* Clientbound packets, as the handlers build them.                        *)
(***************************************************************************)
LoginSuccessPacket(uuid, username, properties) ==
    [name |-> "Login Success", id |-> LoginSuccessPacket_ID,
     uuid |-> uuid, username |-> username, properties |-> properties]

KnownPacksPacket(known_packs) ==
    [name |-> "Known Packs", id |-> KnownPacksPacket_ID, known_packs |-> known_packs]

RegistryDataPacket(registry_id, entries) ==
    [name |-> "Registry Data", id |-> RegistryDataPacket_ID,
     registry_id |-> registry_id, entries |-> entries]

FinishConfigurationPacket ==
    [name |-> "Finish Configuration", id |-> FinishConfigurationPacket_ID]

\* GameEvent::StartWaitingForLevelChunks = 13
GameEventPacket(event, value) ==
    [name |-> "Game Event", id |-> GameEventPacket_ID, event |-> event, value |-> value]

SynchronizePlayerPositionPacket(teleport_id, x, y, z, vx, vy, vz, yaw, pitch, flags) ==
    [name |-> "Synchronize Player Position", id |-> SynchronizePlayerPositionPacket_ID,
     teleport_id |-> teleport_id, x |-> x, y |-> y, z |-> z,
     velocity_x |-> vx, velocity_y |-> vy, velocity_z |-> vz,
     yaw |-> yaw, pitch |-> pitch, flags |-> flags]

(***************************************************************************)
(* Field encoders and the serialization of the clientbound packets.        *)
(***************************************************************************)
\* the concatenation of a sequence of sequences, by halves
RECURSIVE Flatten(_)
Flatten(seqs) ==
    IF seqs = <<>> THEN <<>>
    ELSE IF Len(seqs) = 1 THEN seqs[1]
    ELSE Flatten(SubSeq(seqs, 1, Len(seqs) \div 2))
         \o Flatten(SubSeq(seqs, (Len(seqs) \div 2) + 1, Len(seqs)))

\* String::as_bytes(): the UTF-8 bytes of one code point
Utf8Char(ch) ==
    IF ch < 128 THEN <<ch>>
    ELSE IF ch < 2048 THEN <<192 + (ch \div 64), 128 + (ch % 64)>>
    ELSE IF ch < 65536
         THEN <<224 + (ch \div 4096), 128 + ((ch \div 64) % 64), 128 + (ch % 64)>>
    ELSE <<240 + (ch \div 262144), 128 + ((ch \div 4096) % 64),
           128 + ((ch \div 64) % 64), 128 + (ch % 64)>>

Utf8(s) == Flatten([i \in 1..Len(s) |-> Utf8Char(s[i])])

\* BoundedString::encode: VarInt byte length, then the bytes
BoundedStringEncode(s) == VarIntEncode(Len(Utf8(s))) \o Utf8(s)

\* ResourceLocation on the wire: the BoundedString<32767> of its string form
ResourceLocationEncode(rl) == BoundedStringEncode(ResourceLocationToString(rl))

\* bool::encode
BoolEncode(b) == <<IF b THEN 1 ELSE 0>>

\* to_be_bytes of the integer types; v is the value, n the number of bytes
\* (the bytes past the fourth repeat the sign)
RECURSIVE BeBytes(_, _)
BeBytes(v, n) ==
    IF n = 0 THEN <<>> ELSE BeBytes((v - (v % 256)) \div 256, n - 1) \o <<v % 256>>

\* Uuid::encode: as_u128().to_be_bytes()
UuidEncode(uuid) == BeBytes(uuid, 16)

\* f32 and f64, big-endian IEEE-754, for the values the handlers send
F32Encode(x) == CASE x = 0 -> <<0, 0, 0, 0>>

F64Encode(x) ==
    CASE x = 0 -> <<0, 0, 0, 0, 0, 0, 0, 0>>
      [] x = -128 -> <<192, 96, 0, 0, 0, 0, 0, 0>>

\* bitfield!(TeleportFlags, i32, ..): the backing i32, a bit per flag index
TeleportFlagsEncode(flags) ==
    BeBytes(SumSeq([i \in 1..9 |-> IF (i - 1) \in flags THEN 2 ^ (i - 1) ELSE 0]), 4)

\* Option<T>::encode, given the bytes of the value
OptionEncode(encoded) == IF encoded = None THEN <<0>> ELSE <<1>> \o encoded[1]

\* PrefixedArray<T>::encode, given the bytes of the items
PrefixedArrayEncode(items) == VarIntEncode(Len(items)) \o Flatten(items)

KnownPackEncode(pack) ==
    BoundedStringEncode(pack.namespace) \o BoundedStringEncode(pack.id)
    \o BoundedStringEncode(pack.version)

RegistryEntryEncode(entry) ==
    ResourceLocationEncode(entry.id)
    \o OptionEncode(IF entry.data = None THEN None ELSE Some(entry.data[1]))

\* the fields of a clientbound packet, each by its type's encode, in the
\* order of the struct's declaration
EncodeFields(pkt) ==
    CASE pkt.name = "Login Success" ->
           UuidEncode(pkt.uuid) \o BoundedStringEncode(pkt.username)
           \o PrefixedArrayEncode(pkt.properties)
      [] pkt.name = "Known Packs" ->
           PrefixedArrayEncode([i \in 1..Len(pkt.known_packs) |->
                                  KnownPackEncode(pkt.known_packs[i])])
      [] pkt.name = "Registry Data" ->
           ResourceLocationEncode(pkt.registry_id)
           \o PrefixedArrayEncode([i \in 1..Len(pkt.entries) |->
                                     RegistryEntryEncode(pkt.entries[i])])
      [] pkt.name = "Finish Configuration" -> <<>>
      [] pkt.name = "Game Event" -> BeBytes(pkt.event, 1) \o F32Encode(pkt.value)
      [] pkt.name = "Login" ->
           LET f == pkt.fields
           IN  BeBytes(f.entity_id, 4) \o BoolEncode(f.hardcore)
               \o PrefixedArrayEncode([i \in 1..Len(f.dimensions) |->
                                         ResourceLocationEncode(f.dimensions[i])])
               \o VarIntEncode(f.max_players) \o VarIntEncode(f.view_distance)
               \o VarIntEncode(f.simulation_distance)
               \o BoolEncode(f.reduced_debug_info)
               \o BoolEncode(f.enable_respawn_screen)
               \o BoolEncode(f.do_limited_crafting)
               \o VarIntEncode(f.dimension_type)
               \o ResourceLocationEncode(f.dimension_name)
               \o BeBytes(f.hashed_seed, 8)
               \o BeBytes(f.game_mode, 1) \o BeBytes(f.previous_game_mode, 1)
               \o BoolEncode(f.is_debug) \o BoolEncode(f.is_flat)
               \o OptionEncode(f.death_location)
               \o VarIntEncode(f.portal_cooldown) \o VarIntEncode(f.sea_level)
               \o BoolEncode(f.enforces_secure_chat)
      [] pkt.name = "Synchronize Player Position" ->
           VarIntEncode(pkt.teleport_id)
           \o F64Encode(pkt.x) \o F64Encode(pkt.y) \o F64Encode(pkt.z)
           \o F64Encode(pkt.velocity_x) \o F64Encode(pkt.velocity_y)
           \o F64Encode(pkt.velocity_z)
           \o F32Encode(pkt.yaw) \o F32Encode(pkt.pitch)
           \o TeleportFlagsEncode(pkt.flags)

\* MinecraftPacket::serialize: VarInt(id), then the fields
Serialize(pkt) == VarIntEncode(pkt.id) \o EncodeFields(pkt)

FrameBytes_LengthOfFields(pkt) ==
    VarIntEncode(Len(EncodeFields(pkt))) \o Serialize(pkt)

\* send_packet: the bytes of one write_all, VarInt(packet_data.len()) and
\* packet_data
FrameBytes(pkt) == VarIntEncode(Len(Serialize(pkt))) \o Serialize(pkt)

(***************************************************************************)
(* The log (stdout and stderr) and the results of one loop iteration.      *)
(***************************************************************************)
\* read_packet's line, with the packet data the handler prints after it
InEntry(name, st, id, data) ==
    [dir |-> "C->S", name |-> name, state |-> st, id |-> id, data |-> data]

\* send_packet's line: the state is the connection's at the time of the send
OutEntry(pkt, st) == [dir |-> "S->C", name |-> pkt.name, state |-> st, id |-> pkt.id]

\* the line of the `_ =>` branches
UnknownEntry(st, id) == [dir |-> "???", state |-> st, id |-> id]

PrintEntry(text) == [dir |-> "print", text |-> text]

\* the message of a panic names the line of main.rs whose unwrap failed
PanicEntry(line) == [dir |-> "panic", line |-> line]

\* self.send_packet(&pkt, &mut stream) while the state is st
SendPacket(st, pkt) == [pkt |-> pkt, state |-> st]

\* What one loop iteration does: the state and player it leaves, the lines
\* it prints before its first send, the packets it sends in order, and how
\* it ends ("running": the loop goes on; "closed": break; "panicked": the
\* unwrap at `line` failed)
Outcome(st, pl, before, sends, end) ==
    [state |-> st, player |-> pl, before |-> before, sends |-> sends,
     end |-> end, line |-> 0]

PanicAfter(st, pl, before, sends, line) ==
    [state |-> st, player |-> pl, before |-> before, sends |-> sends,
     end |-> "panicked", line |-> line]

Panic(st, pl, before, line) == PanicAfter(st, pl, before, <<>>, line)

\* the twenty fields of play::clientbound::LoginPacket, as a record
LoginPacket(fields) == [name |-> "Login", id |-> LoginPacket_ID, fields |-> fields]

(***************************************************************************)
(* The dispatch of handle_connection: the match on self.state and, in it,  *)
(* on packet_id.  "???" is the `_ =>` branch.                              *)
(***************************************************************************)
Dispatch_StatusAsLogin(st, packet_id) ==
    IF st = "Handshaking" THEN
        IF packet_id = HandshakePacket_ID THEN "Handshake" ELSE "???"
    ELSE IF st \in {"Status", "Login"} THEN
        IF packet_id = LoginStartPacket_ID THEN "Login Start"
        ELSE IF packet_id = EncryptionResponsePacket_ID THEN "Encryption Response"
        ELSE IF packet_id = LoginAcknowledgedPacket_ID THEN "Login Acknowledged"
        ELSE "???"
    ELSE IF st = "Configuration" THEN
        IF packet_id = ClientInformationPacket_ID THEN "Client Information"
        ELSE IF packet_id = PluginMessagePacket_ID THEN "Plugin Message"
        ELSE IF packet_id = ServerboundKnownPacksPacket_ID THEN "Known Packs"
        ELSE IF packet_id = AcknowledgeFinishConfigurationPacket_ID
             THEN "Acknowledge Finish Configuration"
        ELSE "???"
    ELSE
        IF packet_id = ClientTickEndPacket_ID THEN "Client Tick End" ELSE "???"

Dispatch(st, packet_id) ==
    IF st = "Handshaking" THEN
        IF packet_id = HandshakePacket_ID THEN "Handshake" ELSE "???"
    ELSE IF st = "Status" THEN "???"
    ELSE IF st = "Login" THEN
        IF packet_id = LoginStartPacket_ID THEN "Login Start"
        ELSE IF packet_id = EncryptionResponsePacket_ID THEN "Encryption Response"
        ELSE IF packet_id = LoginAcknowledgedPacket_ID THEN "Login Acknowledged"
        ELSE "???"
    ELSE IF st = "Configuration" THEN
        IF packet_id = ClientInformationPacket_ID THEN "Client Information"
        ELSE IF packet_id = PluginMessagePacket_ID THEN "Plugin Message"
        ELSE IF packet_id = ServerboundKnownPacksPacket_ID THEN "Known Packs"
        ELSE IF packet_id = AcknowledgeFinishConfigurationPacket_ID
             THEN "Acknowledge Finish Configuration"
        ELSE "???"
    ELSE \* Play
        IF packet_id = ClientTickEndPacket_ID THEN "Client Tick End" ELSE "???"

(***************************************************************************)
(* The handlers.  st and pl are the connection's state and player when     *)
(* the frame is dispatched, raw the frame's body after the packet id.      *)
(***************************************************************************)
HandshakeNextState_TransferAsStatus(intent) ==
    IF intent = "Login" THEN "Login" ELSE "Status"

\* match packet.get_intent()
HandshakeNextState(intent) ==
    IF intent = "Status" THEN "Status" ELSE "Login"

HandshakeOutcome(st, pl, raw) ==
    LET d == DeserializeHandshake(raw)
    IN  IF ~ d.ok THEN Panic(st, pl, <<>>, 145)
        ELSE Outcome(HandshakeNextState(d.pkt.intent), pl,
                     <<InEntry("Handshake", st, HandshakePacket_ID, d.pkt)>>,
                     <<>>, "running")

LoginSuccessFor_NilUuid(pl) ==
    IF pl.uuid = None \/ pl.username = None THEN [ok |-> FALSE]
    ELSE IF ~ BoundedStringNew(16, pl.username[1]) THEN [ok |-> FALSE]
    ELSE Ok(LoginSuccessPacket(0, pl.username[1], <<>>))

\* LoginSuccessPacket::new(player.uuid.unwrap(),
\*     BoundedString::new(player.username.as_ref().unwrap()).unwrap(),
\*     BoundedPrefixedArray::new(Vec::new()))
LoginSuccessFor(pl) ==
    IF pl.uuid = None \/ pl.username = None THEN [ok |-> FALSE]
    ELSE IF ~ BoundedStringNew(16, pl.username[1]) THEN [ok |-> FALSE]
    ELSE Ok(LoginSuccessPacket(pl.uuid[1], pl.username[1], <<>>))

LoginStartOutcome_KeepsFirst(st, pl, raw) ==
    LET d == DeserializeLoginStart(raw)
        pl2 == IF pl.username # None THEN pl
               ELSE [username |-> Some(d.pkt.name), uuid |-> Some(d.pkt.player_uuid)]
        before == <<InEntry("Login Start", st, LoginStartPacket_ID, d.pkt)>>
    IN  IF ~ d.ok THEN Panic(st, pl, <<>>, 145)
        ELSE IF ~ LoginSuccessFor(pl2).ok THEN Panic(st, pl2, before, 215)
        ELSE Outcome(st, pl2, before,
                     <<SendPacket(st, LoginSuccessFor(pl2).pkt)>>, "running")

\* the arm of LoginStartPacket::ID: the name and uuid are recorded, then a
\* LoginSuccess of the recorded values is sent
LoginStartOutcome(st, pl, raw) ==
    LET d == DeserializeLoginStart(raw)
        pl2 == [username |-> Some(d.pkt.name), uuid |-> Some(d.pkt.player_uuid)]
        before == <<InEntry("Login Start", st, LoginStartPacket_ID, d.pkt)>>
    IN  IF ~ d.ok THEN Panic(st, pl, <<>>, 145)
        ELSE IF ~ LoginSuccessFor(pl2).ok THEN Panic(st, pl2, before, 215)
        ELSE Outcome(st, pl2, before,
                     <<SendPacket(st, LoginSuccessFor(pl2).pkt)>>, "running")

\* rsa_key_pair.private_decrypt(ciphertext, &mut [0; 128], Padding::PKCS1):
\* a ciphertext is either no PKCS#1 encryption under the server's key or
\* the encryption of a plaintext, which lands at the start of the buffer
PrivateDecrypt(cipher) ==
    IF ~ cipher.valid THEN [ok |-> FALSE]
    ELSE [ok |-> TRUE,
          buf |-> [i \in 1..128 |->
                     IF i <= Len(cipher.plain) THEN cipher.plain[i] ELSE 0]]

TokenInvalid_ThreeBytes(token, decrypted_verify_token) ==
    SubSeq(token, 1, 3) # SubSeq(decrypted_verify_token, 1, 3)

\* sent_verify_token != &decrypted_verify_token[..4]
TokenInvalid(token, decrypted_verify_token) ==
    token # SubSeq(decrypted_verify_token, 1, 4)

\* http: the answer of the session service to the hasJoined request
EncryptionResponseOutcome(st, pl, token, raw, http) ==
    LET d == DeserializeEncryptionResponse(raw)
        before == <<InEntry("Encryption Response", st,
                            EncryptionResponsePacket_ID, d.pkt)>>
        secret == PrivateDecrypt(d.pkt.shared_secret)
        verify == PrivateDecrypt(d.pkt.verify_token)
    IN  IF ~ d.ok THEN Panic(st, pl, <<>>, 145)
        ELSE IF ~ secret.ok THEN Panic(st, pl, before, 246)
        ELSE IF ~ verify.ok THEN Panic(st, pl, before, 256)
        ELSE IF TokenInvalid(token, verify.buf)
             THEN Outcome(st, pl, before \o <<PrintEntry("Token invalid!")>>,
                          <<>>, "closed")
        ELSE IF pl.username = None THEN Panic(st, pl, before, 272)
        ELSE IF ~ http.sent THEN Panic(st, pl, before, 279)
        ELSE IF http.status = 200
             THEN IF ~ LoginSuccessFor(pl).ok
                  THEN Panic(st, pl, before \o <<PrintEntry("body")>>, 285)
                  ELSE Outcome(st, pl, before \o <<PrintEntry("body")>>,
                               <<SendPacket(st, LoginSuccessFor(pl).pkt)>>, "running")
        ELSE Outcome(st, pl, before \o <<PrintEntry("status")>>, <<>>, "running")

LoginAcknowledgedOutcome_StaysLogin(st, pl) ==
    Outcome(st, pl,
            <<InEntry("Login Acknowledged", st, LoginAcknowledgedPacket_ID, <<>>)>>,
            <<>>, "running")

LoginAcknowledgedOutcome(st, pl) ==
    Outcome("Configuration", pl,
            <<InEntry("Login Acknowledged", st, LoginAcknowledgedPacket_ID, <<>>)>>,
            <<>>, "running")

\* the packs the server advertises: minecraft, core, 1.21.11
ServerKnownPacks ==
    << [namespace |-> Minecraft,
        id |-> <<99, 111, 114, 101>>,
        version |-> <<49, 46, 50, 49, 46, 49, 49>>] >>

ClientInformationOutcome_NoReply(st, pl, raw) ==
    LET d == DeserializeClientInformation(raw)
    IN  IF ~ d.ok THEN Panic(st, pl, <<>>, 145)
        ELSE Outcome(st, pl,
                     <<InEntry("Client Information", st, ClientInformationPacket_ID, d.pkt)>>,
                     <<>>, "running")

ClientInformationOutcome(st, pl, raw) ==
    LET d == DeserializeClientInformation(raw)
    IN  IF ~ d.ok THEN Panic(st, pl, <<>>, 145)
        ELSE Outcome(st, pl,
                     <<InEntry("Client Information", st, ClientInformationPacket_ID, d.pkt)>>,
                     <<SendPacket(st, KnownPacksPacket(ServerKnownPacks))>>, "running")

PluginMessageOutcome(st, pl, raw) ==
    LET d == DeserializePluginMessage(raw)
    IN  IF ~ d.ok THEN Panic(st, pl, <<>>, 145)
        ELSE Outcome(st, pl,
                     <<InEntry("Plugin Message", st, PluginMessagePacket_ID, d.pkt)>>,
                     <<>>, "running")

\* the RegistryData packet of one registry of the table; the two
\* BoundedString::<32767>::new(..).unwrap().0.try_into().unwrap() chains fail
\* on a name that is too long or no resource location
RegistryDataFor(registry) ==
    LET id == ResourceLocationDecode(registry.registry_id)
        entry(i) == ResourceLocationDecode(registry.entries[i].name)
    IN  IF \E i \in 1..Len(registry.entries) : ~ entry(i).ok THEN [ok |-> FALSE]
        ELSE IF ~ id.ok THEN [ok |-> FALSE]
        ELSE Ok(RegistryDataPacket(id.value,
                  [i \in 1..Len(registry.entries) |->
                     [id |-> entry(i).value,
                      data |-> Some(registry.entries[i].nbt_bytes)]]))

RegistrySends_Reversed(st, n) ==
    [i \in 1..n |-> SendPacket(st, RegistryDataFor(SYNCED_REGISTRIES[(n + 1) - i]).pkt)]

\* the packets the KnownPacks handler sends for the first n registries
RegistrySends(st, n) ==
    [i \in 1..n |-> SendPacket(st, RegistryDataFor(SYNCED_REGISTRIES[i]).pkt)]

KnownPacksOutcome(st, pl, raw) ==
    LET d == DeserializeKnownPacks(raw)
        before == <<InEntry("Known Packs", st, ServerboundKnownPacksPacket_ID, d.pkt)>>
        N == Len(SYNCED_REGISTRIES)
        bad == {i \in 1..N : ~ RegistryDataFor(SYNCED_REGISTRIES[i]).ok}
    IN  IF ~ d.ok THEN Panic(st, pl, <<>>, 145)
        ELSE IF bad # {}
             THEN PanicAfter(st, pl, before,
                             RegistrySends(st, (CHOOSE i \in bad : \A j \in bad : i <= j) - 1),
                             370)
        ELSE Outcome(st, pl, before,
                     RegistrySends(st, N) \o <<SendPacket(st, FinishConfigurationPacket)>>,
                     "running")

\* ResourceLocation::from_vanilla("overworld")
Overworld == ResourceLocationFromVanilla(<<111, 118, 101, 114, 119, 111, 114, 108, 100>>)

\* login_packet, game_event_packet and synchronize_player_position_packet
PlayPackets ==
    << LoginPacket([entity_id |-> 0, hardcore |-> FALSE, dimensions |-> <<>>,
                    max_players |-> 1, view_distance |-> 8,
                    simulation_distance |-> 8, reduced_debug_info |-> FALSE,
                    enable_respawn_screen |-> FALSE, do_limited_crafting |-> FALSE,
                    dimension_type |-> 0, dimension_name |-> Overworld.value,
                    hashed_seed |-> 0, game_mode |-> 0, previous_game_mode |-> -1,
                    is_debug |-> FALSE, is_flat |-> FALSE, death_location |-> None,
                    portal_cooldown |-> 0, sea_level |-> 60,
                    enforces_secure_chat |-> FALSE]),
       GameEventPacket(13, 0),
       SynchronizePlayerPositionPacket(1, 0, -128, 0, 0, -128, 0, 0, 0, {}) >>

AcknowledgeFinishConfigurationOutcome_StateLast(st, pl) ==
    LET before == <<InEntry("Acknowledge Finish Configuration", st,
                            AcknowledgeFinishConfigurationPacket_ID, <<>>)>>
    IN  IF ~ Overworld.ok THEN Panic(st, pl, before, 409)
        ELSE Outcome("Play", pl, before,
                     [i \in 1..Len(PlayPackets) |-> SendPacket(st, PlayPackets[i])],
                     "running")

AcknowledgeFinishConfigurationOutcome(st, pl) ==
    LET before == <<InEntry("Acknowledge Finish Configuration", st,
                            AcknowledgeFinishConfigurationPacket_ID, <<>>)>>
    IN  \* self.state = ConnectionState::PLAY comes first
        IF ~ Overworld.ok THEN Panic("Play", pl, before, 409)
        ELSE Outcome("Play", pl, before,
                     [i \in 1..Len(PlayPackets) |-> SendPacket("Play", PlayPackets[i])],
                     "running")

ClientTickEndOutcome_BackToConfiguration(st, pl) ==
    Outcome("Configuration", pl,
            <<InEntry("Client Tick End", st, ClientTickEndPacket_ID, <<>>)>>,
            <<>>, "running")

\* the arm of ClientTickEndPacket::ID: read_packet and nothing else
ClientTickEndOutcome(st, pl) ==
    Outcome(st, pl, <<InEntry("Client Tick End", st, ClientTickEndPacket_ID, <<>>)>>,
            <<>>, "running")

UnknownOutcome_Disconnects(st, pl, packet_id) ==
    Outcome(st, pl, <<UnknownEntry(st, packet_id)>>, <<>>, "closed")

\* the `_ =>` branches: eprintln! and nothing else
UnknownOutcome(st, pl, packet_id) ==
    Outcome(st, pl, <<UnknownEntry(st, packet_id)>>, <<>>, "running")

(***************************************************************************)
(* What the clients and the session service may send.                      *)
(***************************************************************************)
Truncated == [complete |-> FALSE]

\* the bytes a frame's body starts with: the packet id VarInt, also
\* over-long (80 00), cut short and too long
IdSamples ==
    { <<0>>, <<1>>, <<2>>, <<3>>, <<4>>, <<7>>, <<12>>, <<128, 0>>,
      <<>>, <<128>>, <<255, 255, 255, 255, 255>> }

HandshakeBodies ==
    { [complete |-> TRUE, protocol_version |-> 767, server_address |-> Localhost,
       server_port |-> 25565, intent |-> i] : i \in 1..4 } \cup {Truncated}

LoginStartBodies ==
    { [complete |-> TRUE, name |-> Steve, player_uuid |-> 1],
      [complete |-> TRUE, name |-> Alex, player_uuid |-> 2],
      [complete |-> TRUE, name |-> Chars(17, 97), player_uuid |-> 1],
      Truncated }

\* the values rng.fill_bytes may give sent_verify_token
Tokens == { <<1, 2, 3, 4>>, <<0, 0, 0, 0>> }

Ciphers ==
    { [valid |-> FALSE, plain |-> <<>>],
      [valid |-> TRUE, plain |-> <<1, 2, 3, 4>>],
      [valid |-> TRUE, plain |-> <<1, 2, 3, 5>>],
      [valid |-> TRUE, plain |-> <<1, 2, 3, 4, 7>>] }

EncryptionResponseBodies ==
    { [complete |-> TRUE, shared_secret |-> [valid |-> TRUE, plain |-> Chars(16, 5)],
       verify_token |-> v] : v \in Ciphers }
    \cup { [complete |-> TRUE, shared_secret |-> [valid |-> FALSE, plain |-> <<>>],
            verify_token |-> [valid |-> TRUE, plain |-> <<1, 2, 3, 4>>]],
           Truncated }

HttpAnswers ==
    { [sent |-> FALSE, status |-> 0], [sent |-> TRUE, status |-> 200],
      [sent |-> TRUE, status |-> 204] }

ClientInformationBodies ==
    { [complete |-> TRUE, locale |-> EnUs, view_distance |-> 8, chat_mode |-> m,
       chat_colors |-> 1, displayed_skin_parts |-> 127, main_hand |-> 1,
       enable_text_filtering |-> 0, allow_server_listings |-> 1,
       particle_status |-> 0] : m \in {0, 3} } \cup {Truncated}

PluginMessageBodies ==
    { [complete |-> TRUE, data |-> <<1>>, channel |-> \* minecraft:brand
         <<109, 105, 110, 101, 99, 114, 97, 102, 116, 58, 98, 114, 97, 110, 100>>],
      [complete |-> TRUE, data |-> <<>>, channel |-> \* Bad:Channel
         <<66, 97, 100, 58, 67, 104, 97, 110, 110, 101, 108>>] }

KnownPacksBodies ==
    { [complete |-> TRUE, size |-> n, items |-> ServerKnownPacks] : n \in -1..2 }

(***************************************************************************)
(* Decoding a frame's body from its bytes.  A reader gives                 *)
(* [ok |-> TRUE, value, rest] or [ok |-> FALSE]; a body whose fields all   *)
(* read gives the record of their values, any other body is Truncated.     *)
(***************************************************************************)
\* the first n bytes, all of them if there are fewer; the bytes after them
Take(bytes, n) == SubSeq(bytes, 1, IF n < Len(bytes) THEN n ELSE Len(bytes))
Drop(bytes, n) == SubSeq(bytes, n + 1, Len(bytes))

NoValue == [ok |-> FALSE]

\* a value computed once and used under a name: K(v)
With(v, K(_)) == K(v)

\* the shortest and the longest well-formed UTF-8 sequence start with
\* these lead bytes; a sequence goes on with bytes 0x80 .. 0xBF
Utf8SeqLen(b) ==
    IF b < 128 THEN 1 ELSE IF b \in 194..223 THEN 2
    ELSE IF b \in 224..239 THEN 3 ELSE IF b \in 240..244 THEN 4 ELSE 0

\* String::from_utf8: the code points of the bytes, or an error (overlong
\* forms, surrogates and code points past U+10FFFF are errors)
RECURSIVE Utf8Decode(_)
Utf8Decode(bytes) ==
    IF bytes = <<>> THEN [ok |-> TRUE, value |-> <<>>]
    ELSE LET b == Head(bytes)
             n == Utf8SeqLen(b)
             cont(i) == bytes[i] - 128
             ch == IF n = 1 THEN b
                   ELSE IF n = 2 THEN ((b - 192) * 64) + cont(2)
                   ELSE IF n = 3 THEN ((b - 224) * 4096) + (cont(2) * 64) + cont(3)
                   ELSE ((b - 240) * 262144) + (cont(2) * 4096) + (cont(3) * 64) + cont(4)
             rest == Utf8Decode(Drop(bytes, n))
         IN  IF n = 0 \/ Len(bytes) < n THEN NoValue
             ELSE IF \E i \in 2..n : bytes[i] \notin 128..191 THEN NoValue
             ELSE IF (b = 224 /\ bytes[2] < 160) \/ (b = 237 /\ bytes[2] > 159)
                     \/ (b = 240 /\ bytes[2] < 144) \/ (b = 244 /\ bytes[2] > 143)
                  THEN NoValue
             ELSE IF ~ rest.ok THEN NoValue
             ELSE [ok |-> TRUE, value |-> <<ch>> \o rest.value]

\* VarInt::decode on a reader holding bytes
ReadVarInt(bytes) ==
    With(VarIntDecode(bytes), LAMBDA r :
        IF r.ok THEN [ok |-> TRUE, value |-> r.value, rest |-> Drop(bytes, r.used)]
        ELSE NoValue)

\* from_be_bytes of an unsigned integer type
RECURSIVE BeValue(_)
BeValue(bytes) ==
    IF bytes = <<>> THEN 0
    ELSE (BeValue(Take(bytes, Len(bytes) - 1)) * 256) + bytes[Len(bytes)]

\* u8, u16 and Uuid decode: read_exact of n bytes
ReadUnsigned(bytes, n) ==
    IF Len(bytes) < n THEN NoValue
    ELSE [ok |-> TRUE, value |-> BeValue(Take(bytes, n)), rest |-> Drop(bytes, n)]

\* i8::decode
ReadI8(bytes) ==
    IF bytes = <<>> THEN NoValue
    ELSE [ok |-> TRUE, value |-> IF bytes[1] < 128 THEN bytes[1] ELSE bytes[1] - 256,
          rest |-> Tail(bytes)]

\* the bytes part of BoundedString::decode: the length VarInt, that many
\* bytes, String::from_utf8 (Self::new is the typed decode's part).  A
\* negative length is a failed allocation, which ends the task as the
\* unwrap of an Err does.
ReadString(bytes) ==
    With(ReadVarInt(bytes), LAMBDA n :
        IF ~ n.ok THEN NoValue
        ELSE IF n.value < 0 \/ n.value > Len(n.rest) THEN NoValue
        ELSE With(Utf8Decode(Take(n.rest, n.value)), LAMBDA s :
                 IF ~ s.ok THEN NoValue
                 ELSE [ok |-> TRUE, value |-> s.value, rest |-> Drop(n.rest, n.value)]))

\* PrefixedArray<u8>::decode
ReadByteArray(bytes) ==
    LET n == ReadVarInt(bytes)
    IN  IF ~ n.ok THEN NoValue
        ELSE IF n.value < 0 \/ n.value > Len(n.rest) THEN NoValue
        ELSE [ok |-> TRUE, value |-> Take(n.rest, n.value), rest |-> Drop(n.rest, n.value)]

\* A ciphertext in the model is the byte 1 followed by its plaintext; other
\* bytes are no PKCS#1 encryption under the server's key.
CipherOf(bytes) ==
    IF bytes # <<>> /\ Head(bytes) = 1 THEN [valid |-> TRUE, plain |-> Tail(bytes)]
    ELSE [valid |-> FALSE, plain |-> <<>>]

\* KnownPack::decode
ReadKnownPack(bytes) ==
    LET namespace == ReadString(bytes)
        id == ReadString(namespace.rest)
        version == ReadString(id.rest)
    IN  IF namespace.ok /\ id.ok /\ version.ok
        THEN [ok |-> TRUE, rest |-> version.rest,
              value |-> [namespace |-> namespace.value, id |-> id.value,
                         version |-> version.value]]
        ELSE NoValue

\* decode_items: the items that decode, at most size of them
RECURSIVE ReadKnownPackItems(_, _)
ReadKnownPackItems(bytes, size) ==
    IF size <= 0 \/ ~ ReadKnownPack(bytes).ok THEN <<>>
    ELSE <<ReadKnownPack(bytes).value>>
         \o ReadKnownPackItems(ReadKnownPack(bytes).rest, size - 1)

ParseHandshake(body) ==
    LET protocol_version == ReadVarInt(body)
        server_address == ReadString(protocol_version.rest)
        server_port == ReadUnsigned(server_address.rest, 2)
        intent == ReadVarInt(server_port.rest)
    IN  IF protocol_version.ok /\ server_address.ok /\ server_port.ok /\ intent.ok
        THEN [complete |-> TRUE, protocol_version |-> protocol_version.value,
              server_address |-> server_address.value,
              server_port |-> server_port.value, intent |-> intent.value]
        ELSE Truncated

ParseLoginStart(body) ==
    LET name == ReadString(body)
        player_uuid == ReadUnsigned(name.rest, 16)
    IN  IF name.ok /\ player_uuid.ok
        THEN [complete |-> TRUE, name |-> name.value, player_uuid |-> player_uuid.value]
        ELSE Truncated

ParseEncryptionResponse(body) ==
    LET shared_secret == ReadByteArray(body)
        verify_token == ReadByteArray(shared_secret.rest)
    IN  IF shared_secret.ok /\ verify_token.ok
        THEN [complete |-> TRUE, shared_secret |-> CipherOf(shared_secret.value),
              verify_token |-> CipherOf(verify_token.value)]
        ELSE Truncated

ParseClientInformation(body) ==
    LET locale == ReadString(body)
        view_distance == ReadI8(locale.rest)
        chat_mode == ReadVarInt(view_distance.rest)
        chat_colors == ReadUnsigned(chat_mode.rest, 1)
        displayed_skin_parts == ReadUnsigned(chat_colors.rest, 1)
        main_hand == ReadVarInt(displayed_skin_parts.rest)
        enable_text_filtering == ReadUnsigned(main_hand.rest, 1)
        allow_server_listings == ReadUnsigned(enable_text_filtering.rest, 1)
        particle_status == ReadVarInt(allow_server_listings.rest)
    IN  IF /\ locale.ok /\ view_distance.ok /\ chat_mode.ok /\ chat_colors.ok
           /\ displayed_skin_parts.ok /\ main_hand.ok /\ enable_text_filtering.ok
           /\ allow_server_listings.ok /\ particle_status.ok
        THEN [complete |-> TRUE, locale |-> locale.value,
              view_distance |-> view_distance.value, chat_mode |-> chat_mode.value,
              chat_colors |-> chat_colors.value,
              displayed_skin_parts |-> displayed_skin_parts.value,
              main_hand |-> main_hand.value,
              enable_text_filtering |-> enable_text_filtering.value,
              allow_server_listings |-> allow_server_listings.value,
              particle_status |-> particle_status.value]
        ELSE Truncated

\* channel, then Vec<u8>::decode: read_to_end
ParsePluginMessage(body) ==
    LET channel == ReadString(body)
    IN  IF channel.ok
        THEN [complete |-> TRUE, channel |-> channel.value, data |-> channel.rest]
        ELSE Truncated

ParseKnownPacks(body) ==
    LET size == ReadVarInt(body)
    IN  IF size.ok
        THEN [complete |-> TRUE, size |-> size.value,
              items |-> ReadKnownPackItems(size.rest, size.value)]
        ELSE Truncated

(***************************************************************************)
(* The state machine.                                                      *)
(***************************************************************************)
NoPlayer == [username |-> None, uuid |-> None]

\* a client whose bytes the model does not spell out
NoStream == [bytes |-> <<>>, read |-> 0]

\* no codec call is under way
NoCall == [stage |-> "none"]

\* frames dispatched on connection c: one log line each
Frames(c) == Cardinality({i \in 1..Len(log[c]) : log[c][i].dir \in {"C->S", "???"}})

TotalFrames == SumSeq([c \in DOMAIN log |-> Frames(c)])

Init ==
    /\ pc = [c \in Conns |-> "idle"]
    /\ state = [c \in Conns |-> "none"]
    /\ player = [c \in Conns |-> NoPlayer]
    /\ sent_verify_token = [c \in Conns |-> <<>>]
    /\ out = [c \in Conns |-> <<>>]
    /\ log = [c \in Conns |-> <<>>]
    /\ inbound = [c \in Conns |-> NoStream]
    /\ wire = [c \in Conns |-> <<>>]
    /\ codec = NoCall

\* main: listener.accept(), then the task of a Connection { state: HANDSHAKING }
\* and the first lines of handle_connection
Accept(c) ==
    /\ pc[c] = "idle"
    /\ \A d \in DOMAIN pc : d < c => pc[d] # "idle"
    /\ pc' = [pc EXCEPT ![c] = "running"]
    /\ state' = [state EXCEPT ![c] = "Handshaking"]
    /\ player' = [player EXCEPT ![c] = NoPlayer]
    /\ \E token \in Tokens : sent_verify_token' = [sent_verify_token EXCEPT ![c] = token]
    /\ UNCHANGED <<out, log, inbound, wire, codec>>

WriteAll_Prepends(stream, buffer) == buffer \o stream

\* stream.write_all(&buffer) and flush: the bytes follow those written before
WriteAll(stream, buffer) == stream \o buffer

Finish_SharedPlayer(c, o) ==
    \E n \in 0..Len(o.sends) :
        LET written == n = Len(o.sends)
            end == IF written THEN o.end ELSE "panicked"
            line == IF written THEN o.line ELSE 135
        IN  /\ state' = [state EXCEPT ![c] = o.state]
            /\ player' = [d \in DOMAIN player |-> o.player]
            /\ out' = [out EXCEPT ![c] = @ \o [i \in 1..n |-> o.sends[i].pkt]]
            /\ wire' = [wire EXCEPT ![c] =
                          WriteAll(@, Flatten([i \in 1..n |-> FrameBytes(o.sends[i].pkt)]))]
            /\ log' = [log EXCEPT ![c] =
                         @ \o o.before
                           \o [i \in 1..n |-> OutEntry(o.sends[i].pkt, o.sends[i].state)]
                           \o (IF end = "panicked" THEN <<PanicEntry(line)>> ELSE <<>>)]
            /\ pc' = [pc EXCEPT ![c] = end]
            /\ UNCHANGED <<sent_verify_token, codec>>

\* One iteration of the loop ends as outcome o says; a send whose write
\* fails ends it by the unwrap in send_packet (line 135), after n complete
\* sends
Finish(c, o) ==
    \E n \in 0..Len(o.sends) :
        LET written == n = Len(o.sends)
            end == IF written THEN o.end ELSE "panicked"
            line == IF written THEN o.line ELSE 135
        IN  /\ state' = [state EXCEPT ![c] = o.state]
            /\ player' = [player EXCEPT ![c] = o.player]
            /\ out' = [out EXCEPT ![c] = @ \o [i \in 1..n |-> o.sends[i].pkt]]
            /\ wire' = [wire EXCEPT ![c] =
                          WriteAll(@, Flatten([i \in 1..n |-> FrameBytes(o.sends[i].pkt)]))]
            /\ log' = [log EXCEPT ![c] =
                         @ \o o.before
                           \o [i \in 1..n |-> OutEntry(o.sends[i].pkt, o.sends[i].state)]
                           \o (IF end = "panicked" THEN <<PanicEntry(line)>> ELSE <<>>)]
            /\ pc' = [pc EXCEPT ![c] = end]
            /\ UNCHANGED <<sent_verify_token, codec>>

\* connection c has read a frame whose packet id dispatches to handler
Reads(c, handler) ==
    /\ pc[c] = "running"
    /\ TotalFrames < MaxFrames
    /\ UNCHANGED inbound
    /\ \E idbytes \in IdSamples :
          /\ VarIntDecode(idbytes).ok
          /\ Dispatch(state[c], VarIntDecode(idbytes).value) = handler

\* read_varint or read_exact fails (the stream ended, the length VarInt is
\* too long): break
ReadFail(c) ==
    /\ pc[c] = "running"
    /\ TotalFrames < MaxFrames
    /\ pc' = [pc EXCEPT ![c] = "closed"]
    /\ UNCHANGED <<state, player, sent_verify_token, out, log, inbound, wire, codec>>

\* VarInt::decode(&mut packet_buffer).unwrap() on a body that starts with no
\* VarInt
BadPacketId(c) ==
    /\ pc[c] = "running"
    /\ TotalFrames < MaxFrames
    /\ \E idbytes \in IdSamples : ~ VarIntDecode(idbytes).ok
    /\ pc' = [pc EXCEPT ![c] = "panicked"]
    /\ log' = [log EXCEPT ![c] = Append(@, PanicEntry(172))]
    /\ UNCHANGED <<state, player, sent_verify_token, out, inbound, wire, codec>>

HandleHandshake(c) ==
    /\ Reads(c, "Handshake")
    /\ \E raw \in HandshakeBodies : Finish(c, HandshakeOutcome(state[c], player[c], raw))

HandleLoginStart(c) ==
    /\ Reads(c, "Login Start")
    /\ \E raw \in LoginStartBodies : Finish(c, LoginStartOutcome(state[c], player[c], raw))

HandleEncryptionResponse(c) ==
    /\ Reads(c, "Encryption Response")
    /\ \E raw \in EncryptionResponseBodies, http \in HttpAnswers :
          Finish(c, EncryptionResponseOutcome(state[c], player[c],
                                              sent_verify_token[c], raw, http))

HandleLoginAcknowledged(c) ==
    /\ Reads(c, "Login Acknowledged")
    /\ Finish(c, LoginAcknowledgedOutcome(state[c], player[c]))

HandleClientInformation(c) ==
    /\ Reads(c, "Client Information")
    /\ \E raw \in ClientInformationBodies :
          Finish(c, ClientInformationOutcome(state[c], player[c], raw))

HandlePluginMessage(c) ==
    /\ Reads(c, "Plugin Message")
    /\ \E raw \in PluginMessageBodies :
          Finish(c, PluginMessageOutcome(state[c], player[c], raw))

HandleKnownPacks(c) ==
    /\ Reads(c, "Known Packs")
    /\ \E raw \in KnownPacksBodies : Finish(c, KnownPacksOutcome(state[c], player[c], raw))

HandleAcknowledgeFinishConfiguration_NeedsLogin(c) ==
    /\ Reads(c, "Acknowledge Finish Configuration")
    /\ Finish(c, IF player[c] = NoPlayer
                 THEN Outcome(state[c], player[c],
                              <<InEntry("Acknowledge Finish Configuration", state[c],
                                        AcknowledgeFinishConfigurationPacket_ID, <<>>)>>,
                              <<>>, "running")
                 ELSE AcknowledgeFinishConfigurationOutcome(state[c], player[c]))

HandleAcknowledgeFinishConfiguration(c) ==
    /\ Reads(c, "Acknowledge Finish Configuration")
    /\ Finish(c, AcknowledgeFinishConfigurationOutcome(state[c], player[c]))

HandleClientTickEnd(c) ==
    /\ Reads(c, "Client Tick End")
    /\ Finish(c, ClientTickEndOutcome(state[c], player[c]))

HandleUnknown(c) ==
    /\ pc[c] = "running"
    /\ TotalFrames < MaxFrames
    /\ \E idbytes \in IdSamples :
          /\ VarIntDecode(idbytes).ok
          /\ Dispatch(state[c], VarIntDecode(idbytes).value) = "???"
          /\ UNCHANGED inbound
          /\ Finish(c, UnknownOutcome(state[c], player[c], VarIntDecode(idbytes).value))

Next ==
    \E c \in Conns :
        \/ Accept(c)
        \/ ReadFail(c)
        \/ BadPacketId(c)
        \/ HandleHandshake(c)
        \/ HandleLoginStart(c)
        \/ HandleEncryptionResponse(c)
        \/ HandleLoginAcknowledged(c)
        \/ HandleClientInformation(c)
        \/ HandlePluginMessage(c)
        \/ HandleKnownPacks(c)
        \/ HandleAcknowledgeFinishConfiguration(c)
        \/ HandleClientTickEnd(c)
        \/ HandleUnknown(c)

Spec == Init /\ [][Next]_vars

(***************************************************************************)
(* The connection on its bytes: the client writes segments to the stream   *)
(* and may close it; each iteration of the loop of handle_connection takes *)
(* one frame from the unread bytes.                                        *)
(***************************************************************************)
\* the segments one client writes
MaxChunks == 3

\* a frame as a client writes it: the length of the body, the packet id,
\* the fields
ClientFrame(id, fields) ==
    VarIntEncode(Len(VarIntEncode(id) \o fields)) \o VarIntEncode(id) \o fields

ByteArrayEncode(bytes) == VarIntEncode(Len(bytes)) \o bytes

HandshakeFields(intent) ==
    VarIntEncode(767) \o BoundedStringEncode(Localhost) \o BeBytes(25565, 2)
    \o VarIntEncode(intent)

\* Handshake (Login), Login Start, Encryption Response, Login Acknowledged
LoginChunk ==
    ClientFrame(HandshakePacket_ID, HandshakeFields(2))
    \o ClientFrame(LoginStartPacket_ID, BoundedStringEncode(Steve) \o UuidEncode(1))
    \o ClientFrame(EncryptionResponsePacket_ID,
                   ByteArrayEncode(<<1>> \o Chars(16, 5))
                   \o ByteArrayEncode(<<1, 1, 2, 3, 4>>))
    \o ClientFrame(LoginAcknowledgedPacket_ID, <<>>)

\* Client Information, Plugin Message (minecraft:brand), Known Packs
ConfigurationChunk ==
    ClientFrame(ClientInformationPacket_ID,
                BoundedStringEncode(EnUs) \o <<8>> \o VarIntEncode(0) \o <<1, 127>>
                \o VarIntEncode(1) \o <<0, 1>> \o VarIntEncode(0))
    \o ClientFrame(PluginMessagePacket_ID,
                   BoundedStringEncode(<<109, 105, 110, 101, 99, 114, 97, 102, 116,
                                         58, 98, 114, 97, 110, 100>>) \o <<1>>)
    \o ClientFrame(ServerboundKnownPacksPacket_ID,
                   PrefixedArrayEncode(<<KnownPackEncode(ServerKnownPacks[1])>>))

\* Acknowledge Finish Configuration, Client Tick End, a frame of id 7
PlayChunk ==
    ClientFrame(AcknowledgeFinishConfigurationPacket_ID, <<>>)
    \o ClientFrame(ClientTickEndPacket_ID, <<>>)
    \o ClientFrame(7, <<1, 2, 3>>)

\* Handshake (Status), a status request, a ping
StatusChunk ==
    ClientFrame(HandshakePacket_ID, HandshakeFields(1))
    \o ClientFrame(0, <<>>) \o ClientFrame(1, BeBytes(7, 8))

Chunks ==
    { LoginChunk, ConfigurationChunk, PlayChunk, StatusChunk,
      \* a Handshake (Login) and a Login Acknowledged with bytes after
      \* their last field
      ClientFrame(HandshakePacket_ID, HandshakeFields(2) \o <<9, 9>>)
      \o ClientFrame(LoginAcknowledgedPacket_ID, <<7>>),
      \* a length VarInt of six bytes; the length -1
      <<255, 255, 255, 255, 255, 1>>,
      <<255, 255, 255, 255, 15>>,
      \* the empty frame; a frame whose packet id is cut
      <<0>>,
      <<1, 128>>,
      \* a frame of id 0 whose first field is cut
      ClientFrame(0, <<255>>),
      \* the start of a frame of 4 bytes
      <<4, 0>> }

\* a client that has written nothing yet
OpenStream == [bytes |-> <<>>, read |-> 0, chunks |-> 0, closed |-> FALSE]

InitWire ==
    /\ pc = [c \in Conns |-> "idle"]
    /\ state = [c \in Conns |-> "none"]
    /\ player = [c \in Conns |-> NoPlayer]
    /\ sent_verify_token = [c \in Conns |-> <<>>]
    /\ out = [c \in Conns |-> <<>>]
    /\ log = [c \in Conns |-> <<>>]
    /\ inbound = [c \in Conns |-> OpenStream]
    /\ wire = [c \in Conns |-> <<>>]
    /\ codec = NoCall

\* the client writes a segment
ClientSend(c) ==
    /\ pc[c] = "running"
    /\ ~ inbound[c].closed
    /\ inbound[c].chunks < MaxChunks
    /\ \E chunk \in Chunks :
          inbound' = [inbound EXCEPT ![c].bytes = @ \o chunk, ![c].chunks = @ + 1]
    /\ UNCHANGED <<pc, state, player, sent_verify_token, out, log, wire, codec>>

\* the client closes its side of the stream
ClientClose(c) ==
    /\ pc[c] = "running"
    /\ ~ inbound[c].closed
    /\ inbound' = [inbound EXCEPT ![c].closed = TRUE]
    /\ UNCHANGED <<pc, state, player, sent_verify_token, out, log, wire, codec>>

\* the bytes the next read of the stream sees
Unread(c) == Drop(inbound[c].bytes, inbound[c].read)

\* read_varint(&mut stream): the same loop as VarInt::decode
FrameLength(c) == VarIntDecode(Unread(c))

FrameArrived_LengthRead(c) == FrameLength(c).ok /\ FrameLength(c).value >= 0

\* the whole frame is in the stream: read_exact(&mut buffer) returns
FrameArrived(c) ==
    /\ FrameLength(c).ok
    /\ FrameLength(c).value >= 0
    /\ Len(Unread(c)) - FrameLength(c).used >= FrameLength(c).value

\* buffer: the len bytes after the length, copied out of the stream
FrameBody(c) == Take(Drop(Unread(c), FrameLength(c).used), FrameLength(c).value)

\* the stream position after the frame
FrameEnd(c) == inbound[c].read + FrameLength(c).used + FrameLength(c).value

\* read_varint fails (the VarInt goes past five bytes, or the stream ends in
\* it) or read_exact fails (the stream ends in the body): break
WireReadFail(c) ==
    /\ pc[c] = "running"
    /\ \/ ~ FrameLength(c).ok /\ FrameLength(c).err = "InvalidData"
       \/ ~ FrameLength(c).ok /\ FrameLength(c).err = "UnexpectedEof"
             /\ inbound[c].closed
       \/ FrameLength(c).ok /\ FrameLength(c).value >= 0 /\ ~ FrameArrived(c)
             /\ inbound[c].closed
    /\ inbound' = [inbound EXCEPT ![c].read =
                     IF FrameLength(c).ok THEN Len(inbound[c].bytes)
                     ELSE @ + FrameLength(c).used]
    /\ pc' = [pc EXCEPT ![c] = "closed"]
    /\ UNCHANGED <<state, player, sent_verify_token, out, log, wire, codec>>

\* a negative length: `value as usize` is above isize::MAX, and
\* vec![0u8; size] panics with a capacity overflow
WireBadLength(c) ==
    /\ pc[c] = "running"
    /\ FrameLength(c).ok /\ FrameLength(c).value < 0
    /\ inbound' = [inbound EXCEPT ![c].read = @ + FrameLength(c).used]
    /\ pc' = [pc EXCEPT ![c] = "panicked"]
    /\ log' = [log EXCEPT ![c] = Append(@, PanicEntry(167))]
    /\ UNCHANGED <<state, player, sent_verify_token, out, wire, codec>>

\* VarInt::decode(&mut packet_buffer).unwrap() on a body that starts with no
\* VarInt
WireBadPacketId(c) ==
    /\ pc[c] = "running"
    /\ FrameArrived(c)
    /\ ~ VarIntDecode(FrameBody(c)).ok
    /\ inbound' = [inbound EXCEPT ![c].read = FrameEnd(c)]
    /\ pc' = [pc EXCEPT ![c] = "panicked"]
    /\ log' = [log EXCEPT ![c] = Append(@, PanicEntry(172))]
    /\ UNCHANGED <<state, player, sent_verify_token, out, wire, codec>>

\* the arm of the match for a body whose packet id is packet_id and whose
\* bytes after the id are fields
ArmOutcome(st, pl, token, packet_id, fields, http) ==
    LET handler == Dispatch(st, packet_id)
    IN  CASE handler = "Handshake" -> HandshakeOutcome(st, pl, ParseHandshake(fields))
          [] handler = "Login Start" -> LoginStartOutcome(st, pl, ParseLoginStart(fields))
          [] handler = "Encryption Response" ->
               EncryptionResponseOutcome(st, pl, token,
                                         ParseEncryptionResponse(fields), http)
          [] handler = "Login Acknowledged" -> LoginAcknowledgedOutcome(st, pl)
          [] handler = "Client Information" ->
               ClientInformationOutcome(st, pl, ParseClientInformation(fields))
          [] handler = "Plugin Message" ->
               PluginMessageOutcome(st, pl, ParsePluginMessage(fields))
          [] handler = "Known Packs" -> KnownPacksOutcome(st, pl, ParseKnownPacks(fields))
          [] handler = "Acknowledge Finish Configuration" ->
               AcknowledgeFinishConfigurationOutcome(st, pl)
          [] handler = "Client Tick End" -> ClientTickEndOutcome(st, pl)
          [] OTHER -> UnknownOutcome(st, pl, packet_id)

\* the arm, on the connection's own self.state, player and sent_verify_token
WireOutcome(c, packet_id, fields, http) ==
    ArmOutcome(state[c], player[c], sent_verify_token[c], packet_id, fields, http)

\* one iteration of the loop on a frame that arrived whole and has a
\* packet id
WireHandle(c) ==
    /\ pc[c] = "running"
    /\ FrameArrived(c)
    /\ VarIntDecode(FrameBody(c)).ok
    /\ inbound' = [inbound EXCEPT ![c].read = FrameEnd(c)]
    /\ \E http \in HttpAnswers :
          Finish(c, WireOutcome(c, VarIntDecode(FrameBody(c)).value,
                                Drop(FrameBody(c), VarIntDecode(FrameBody(c)).used),
                                http))

NextWire ==
    \E c \in Conns :
        \/ Accept(c)
        \/ ClientSend(c)
        \/ ClientClose(c)
        \/ WireReadFail(c)
        \/ WireBadLength(c)
        \/ WireBadPacketId(c)
        \/ WireHandle(c)

SpecWire == InitWire /\ [][NextWire]_vars

(***************************************************************************)
(* Two connections, each the task of its own Connection, on streams their  *)
(* clients have written and closed; the steps of the two tasks interleave  *)
(* in every way.                                                           *)
(***************************************************************************)
Both == {1, 2}

\* what a client writes before it closes the stream
Scripts ==
    { \* the whole way into Play
      LoginChunk \o ConfigurationChunk \o PlayChunk,
      \* into Status, then a frame whose packet id is cut
      StatusChunk \o <<1, 128>>,
      \* into Configuration, then the length -1
      LoginChunk \o <<255, 255, 255, 255, 15>>,
      \* into Login, then a Login Start whose name is cut
      ClientFrame(HandshakePacket_ID, HandshakeFields(2)) \o ClientFrame(0, <<255>>),
      \* into Configuration, then the start of a frame
      LoginChunk \o ClientFrame(ClientInformationPacket_ID, <<>>) \o <<4, 0>> }

InitTwo ==
    /\ pc = [c \in Both |-> "idle"]
    /\ state = [c \in Both |-> "none"]
    /\ player = [c \in Both |-> NoPlayer]
    /\ sent_verify_token = [c \in Both |-> <<>>]
    /\ out = [c \in Both |-> <<>>]
    /\ log = [c \in Both |-> <<>>]
    /\ inbound \in [Both -> { [bytes |-> s, read |-> 0, chunks |-> 1, closed |-> TRUE] :
                               s \in Scripts }]
    /\ wire = [c \in Both |-> <<>>]
    /\ codec = NoCall

NextTwo ==
    \E c \in Both :
        \/ Accept(c)
        \/ WireReadFail(c)
        \/ WireBadLength(c)
        \/ WireBadPacketId(c)
        \/ WireHandle(c)

SpecTwo == InitTwo /\ [][NextTwo]_vars

(***************************************************************************)
(* The VarInt and VarLong codecs on their own: a value is encoded into a   *)
(* writer, and a reader holding the written bytes and what follows them    *)
(* is decoded.                                                             *)
(***************************************************************************)
\* 2^k for k in 0..31 as an i32 (2^31 wraps to i32::MIN)
Pow2I32(k) == IF k = 31 THEN MinI32 ELSE 2 ^ k

VarIntSamples ==
    (-CodecRange .. CodecRange)
    \cup { Pow2I32(k) : k \in 0..31 } \cup { Pow2I32(k) - 1 : k \in 0..30 }
    \cup { -Pow2I32(k) : k \in 0..30 } \cup { (-Pow2I32(k)) - 1 : k \in 0..30 }
    \cup { 25565, -25565, 2147483647 }

\* the i64 values 2^k, 2^k - 1 and their complements -2^k - 1 and -2^k
VarLongSamples ==
    UNION { { [i \in 1..64 |-> IF i = k + 1 THEN 1 ELSE 0],
              [i \in 1..64 |-> IF i <= k THEN 1 ELSE 0],
              [i \in 1..64 |-> IF i = k + 1 THEN 0 ELSE 1],
              [i \in 1..64 |-> IF i <= k THEN 0 ELSE 1] } : k \in 0..63 }

\* what follows the written bytes in the reader
Trailing == { <<>>, <<0>>, <<255, 1>> }

InitCodec ==
    /\ pc = [c \in Conns |-> "idle"]
    /\ state = [c \in Conns |-> "none"]
    /\ player = [c \in Conns |-> NoPlayer]
    /\ sent_verify_token = [c \in Conns |-> <<>>]
    /\ out = [c \in Conns |-> <<>>]
    /\ log = [c \in Conns |-> <<>>]
    /\ inbound = [c \in Conns |-> NoStream]
    /\ wire = [c \in Conns |-> <<>>]
    /\ \/ \E v \in VarIntSamples :
             codec = [stage |-> "input", kind |-> "VarInt", value |-> v]
       \/ \E v \in VarLongSamples :
             codec = [stage |-> "input", kind |-> "VarLong", value |-> v]

\* value.encode(&mut writer)
CodecEncode ==
    /\ codec.stage = "input"
    /\ codec' = [stage |-> "encoded", kind |-> codec.kind, value |-> codec.value,
                 bytes |-> IF codec.kind = "VarInt" THEN VarIntEncode(codec.value)
                           ELSE VarLongEncode(codec.value)]
    /\ UNCHANGED <<pc, state, player, sent_verify_token, out, log, inbound, wire>>

\* decode(&mut reader) on the written bytes and what follows them
CodecDecode ==
    /\ codec.stage = "encoded"
    /\ \E rest \in Trailing :
          codec' = [stage |-> "decoded", kind |-> codec.kind, value |-> codec.value,
                    bytes |-> codec.bytes, rest |-> rest,
                    result |-> IF codec.kind = "VarInt"
                               THEN VarIntDecode(codec.bytes \o rest)
                               ELSE VarLongDecode(codec.bytes \o rest)]
    /\ UNCHANGED <<pc, state, player, sent_verify_token, out, log, inbound, wire>>

NextCodec == CodecEncode \/ CodecDecode

SpecCodec == InitCodec /\ [][NextCodec]_vars

(***************************************************************************)
(* Calls of the codecs on their own: the operation and its argument are    *)
(* drawn at the start, the one step is the call, and the result stays.     *)
(***************************************************************************)
\* the longest run of continuation bytes given to the decoders
MaxRun == 11

\* runs of continuation bytes, with and without a byte that ends them
VarBytes ==
    { Chars(k, b) \o tail : k \in 0..MaxRun, b \in {128, 255},
                            tail \in { <<>>, <<0>>, <<127>>, <<1, 128>> } }

Idle ==
    /\ pc = [c \in Conns |-> "idle"]
    /\ state = [c \in Conns |-> "none"]
    /\ player = [c \in Conns |-> NoPlayer]
    /\ sent_verify_token = [c \in Conns |-> <<>>]
    /\ out = [c \in Conns |-> <<>>]
    /\ log = [c \in Conns |-> <<>>]
    /\ inbound = [c \in Conns |-> NoStream]
    /\ wire = [c \in Conns |-> <<>>]

Call(op, arg) == codec = [stage |-> "call", op |-> op, arg |-> arg]

Called(op) == codec.stage = "call" /\ codec.op = op

Returns(result) ==
    /\ codec' = [stage |-> "done", op |-> codec.op, arg |-> codec.arg,
                 result |-> result]
    /\ UNCHANGED <<pc, state, player, sent_verify_token, out, log, inbound, wire>>

\* the call of op is over
Done(op) == codec.stage = "done" /\ codec.op = op

Failure(err) == [ok |-> FALSE, err |-> err]

\* BoundedString::<MAX>::new(s) as a result
BoundedStringNewResult(MAX, s) ==
    IF BoundedStringNew(MAX, s) THEN [ok |-> TRUE, value |-> s]
    ELSE Failure("InvalidData")

\* BoundedString::<MAX>::decode: the length VarInt, a buffer of that many
\* bytes (a negative length is above isize::MAX as usize: vec! panics),
\* read_exact, String::from_utf8, Self::new
BoundedStringDecode(MAX, bytes) ==
    With(VarIntDecode(bytes), LAMBDA n :
        IF ~ n.ok THEN Failure(n.err)
        ELSE IF n.value < 0 THEN Failure("panic")
        ELSE IF n.value > Len(bytes) - n.used THEN Failure("UnexpectedEof")
        ELSE With(Utf8Decode(SubSeq(bytes, n.used + 1, n.used + n.value)), LAMBDA s :
                 IF ~ s.ok THEN Failure("InvalidData")
                 ELSE IF ~ BoundedStringNew(MAX, s.value) THEN Failure("InvalidData")
                 ELSE [ok |-> TRUE, value |-> s.value,
                       rest |-> Drop(bytes, n.used + n.value)]))

\* the const parameters MAX of the calls
MaxSamples == {0, 1, 2, 16, 255}

\* texts of 0 .. 17 characters: "a" (one byte, one UTF-16 unit), U+20AC
\* (three bytes, one unit) and U+1F600 (four bytes, two units)
StringSamples ==
    { Chars(k, ch) : k \in {0, 1, 2, 3, 8, 9, 16, 17}, ch \in {97, 8364, 128512} }
    \cup { Chars(15, 97) \o <<128512>>, Chars(16, 8364) \o <<97>>, Steve }

\* texts around MAX_STRING_LENGTH, for a MAX above it
LongSamples == { Chars(k, 97) : k \in {32767, 32768} }

\* byte strings that are no UTF-8: a lone continuation byte, a cut
\* sequence, 0xFF, an overlong form, a surrogate, a code point past U+10FFFF
BadUtf8 ==
    { <<128>>, <<97, 195>>, <<255>>, <<192, 128>>, <<224, 128, 128>>,
      <<237, 160, 128>>, <<244, 144, 128, 128>> }

ByteArrayOf(bytes) == VarIntEncode(Len(bytes)) \o bytes

(***************************************************************************)
(* BoundedPrefixedArray<T, MAX>, for T = u8.  MAX is a u64: the sequence   *)
(* of its 64 bits, lowest first.                                           *)
(***************************************************************************)
\* the u64 of a number below 2^31
U64(n) == [i \in 1..64 |-> IF i <= 31 THEN (n \div (2 ^ (i - 1))) % 2 ELSE 0]

\* 2^31 and 2^32 + 1 as u64
U64_Pow31 == [i \in 1..64 |-> IF i = 32 THEN 1 ELSE 0]
U64_Pow32Plus1 == [i \in 1..64 |-> IF i \in {1, 33} THEN 1 ELSE 0]

\* MAX as i32: the low 32 bits, two's complement
AsI32(bits) ==
    IF bits[32] = 1 THEN MinI32 + BitsValue(SubSeq(bits, 1, 31))
    ELSE BitsValue(SubSeq(bits, 1, 31))

\* len > MAX as usize, for a len below 2^31 (usize has 64 bits)
LenAbove(len, bits) ==
    (\A i \in 32..64 : bits[i] = 0) /\ len > BitsValue(SubSeq(bits, 1, 31))

\* BoundedPrefixedArray::encode: the bytes written and the result
BoundedPrefixedArrayEncode(MAX, items) ==
    IF LenAbove(Len(items), MAX)
    THEN [ok |-> FALSE, err |-> "InvalidData", written |-> <<>>]
    ELSE [ok |-> TRUE, written |-> PrefixedArrayEncode([i \in 1..Len(items) |-> <<items[i]>>])]

\* PrefixedArray::decode_items: size pushes of u8::decode
RECURSIVE DecodeItems(_, _, _, _)
DecodeItems(bytes, size, result, used) ==
    IF size = 0 THEN [ok |-> TRUE, value |-> result, used |-> used]
    ELSE IF bytes = <<>>
         THEN [ok |-> FALSE, err |-> "UnexpectedEof", used |-> used, read |-> Len(result)]
         ELSE DecodeItems(Tail(bytes), size - 1, Append(result, Head(bytes)), used + 1)

\* size > MAX as i32
SizeAbove(size, MAX) == size > AsI32(MAX)

\* BoundedPrefixedArray::decode (a negative size as usize is above
\* isize::MAX: Vec::with_capacity panics)
BoundedPrefixedArrayDecode(MAX, bytes) ==
    With(VarIntDecode(bytes), LAMBDA size :
        IF ~ size.ok THEN [ok |-> FALSE, err |-> size.err, used |-> size.used, read |-> 0]
        ELSE IF SizeAbove(size.value, MAX)
        THEN [ok |-> FALSE, err |-> "InvalidData", used |-> size.used, read |-> 0]
        ELSE IF size.value < 0
        THEN [ok |-> FALSE, err |-> "panic", used |-> size.used, read |-> 0]
        ELSE DecodeItems(Drop(bytes, size.used), size.value, <<>>, size.used))

\* the const parameters MAX, and arrays of 0 .. 5 elements
ArrayMax == { U64(0), U64(1), U64(3), U64_Pow31, U64_Pow32Plus1 }
ArraySamples == { [i \in 1..n |-> (i * first) % 256] : n \in 0..5, first \in {1, 7, 255} }

\* bool::decode on a reader: read_exact of one byte, then the match
BoolRead(bytes) ==
    IF bytes = <<>> THEN Failure("UnexpectedEof")
    ELSE IF ~ BoolDecode(Head(bytes)).ok THEN Failure("InvalidData")
    ELSE [ok |-> TRUE, value |-> BoolDecode(Head(bytes)).value, rest |-> Tail(bytes)]

(***************************************************************************)
(* RegistryDataPacket::deserialize on the bytes after the packet id.       *)
(***************************************************************************)
\* ResourceLocation::decode
ReadResourceLocation(bytes) ==
    With(ReadString(bytes), LAMBDA s :
        IF ~ s.ok THEN NoValue
        ELSE With(ResourceLocationDecode(s.value), LAMBDA rl :
                 IF ~ rl.ok THEN NoValue
                 ELSE [ok |-> TRUE, value |-> rl.value, rest |-> s.rest]))

\* Vec<u8>::decode: read_to_end
ReadToEnd(bytes) == [ok |-> TRUE, value |-> bytes, rest |-> <<>>]

\* Option<Vec<u8>>::decode
ReadOptionBytes(bytes) ==
    IF bytes = <<>> THEN NoValue
    ELSE With(BoolDecode(Head(bytes)), LAMBDA exists :
             IF ~ exists.ok THEN NoValue
             ELSE IF exists.value
                  THEN With(ReadToEnd(Tail(bytes)), LAMBDA value :
                           [ok |-> TRUE, value |-> Some(value.value), rest |-> value.rest])
                  ELSE [ok |-> TRUE, value |-> None, rest |-> Tail(bytes)])

\* RegistryEntry::decode: the fields in the order of the declaration
ReadRegistryEntry(bytes) ==
    With(ReadResourceLocation(bytes), LAMBDA id :
        IF ~ id.ok THEN NoValue
        ELSE With(ReadOptionBytes(id.rest), LAMBDA data :
                 IF ~ data.ok THEN NoValue
                 ELSE [ok |-> TRUE, value |-> [id |-> id.value, data |-> data.value],
                       rest |-> data.rest]))

\* PrefixedArray::<RegistryEntry>::decode_items
RECURSIVE ReadRegistryEntries(_, _, _)
ReadRegistryEntries(bytes, size, result) ==
    IF size = 0 THEN [ok |-> TRUE, value |-> result, rest |-> bytes]
    ELSE With(ReadRegistryEntry(bytes), LAMBDA entry :
             IF ~ entry.ok THEN NoValue
             ELSE ReadRegistryEntries(entry.rest, size - 1, Append(result, entry.value)))

RegistryDataDeserialize(buffer) ==
    With(ReadResourceLocation(buffer), LAMBDA registry_id :
        IF ~ registry_id.ok THEN Err
        ELSE With(ReadVarInt(registry_id.rest), LAMBDA size :
                 IF ~ size.ok \/ size.value < 0 THEN Err
                 ELSE With(ReadRegistryEntries(size.rest, size.value, <<>>), LAMBDA entries :
                          IF ~ entries.ok THEN Err
                          ELSE Ok(RegistryDataPacket(registry_id.value, entries.value)))))

\* serialize, then what the connection loop does with the bytes: the packet
\* id VarInt, then deserialize on the rest
RegistryDataRoundTrip(pkt) ==
    With(ReadVarInt(Serialize(pkt)), LAMBDA packet_id :
        IF ~ packet_id.ok \/ packet_id.value # RegistryDataPacket_ID THEN Err
        ELSE RegistryDataDeserialize(packet_id.rest))

\* registry entries: two ids, no data or an NBT blob
EntrySamples ==
    { [id |-> [namespace |-> Minecraft, path |-> path], data |-> data] :
        path \in { <<97>>, <<98, 47, 99>> },
        data \in { None, Some(<<10, 0>>), Some(<<10, 1, 0, 1, 97, 0, 0>>) } }

RegistrySamples ==
    { RegistryDataPacket([namespace |-> Minecraft, path |-> <<114>>], entries) :
        entries \in {<<>>} \cup { <<e>> : e \in EntrySamples }
                   \cup { <<e1, e2>> : e1 \in EntrySamples, e2 \in EntrySamples } }

(***************************************************************************)
(* Position.  The packed word is an i64: the sequence of its 64 bits,      *)
(* lowest first.                                                           *)
(***************************************************************************)
\* v as i64 for an i32 or i16 v: the sign fills the upper bits
AsI64(v) ==
    [i \in 1..64 |->
        IF i <= 31 THEN ((v - (v % (2 ^ (i - 1)))) \div (2 ^ (i - 1))) % 2
        ELSE IF v < 0 THEN 1 ELSE 0]

\* bits & mask for the mask of the n lowest bits (0x3FFFFFF: 26, 0xFFF: 12)
AndLow(bits, n) == [i \in 1..64 |-> IF i <= n THEN bits[i] ELSE 0]

\* bits << k on an i64
Shl64(bits, k) == [i \in 1..64 |-> IF i > k THEN bits[i - k] ELSE 0]

Shr64_Logical(bits, k) == [i \in 1..64 |-> IF i + k <= 64 THEN bits[i + k] ELSE 0]

\* bits >> k on an i64: the sign bit fills from above
Shr64(bits, k) == [i \in 1..64 |-> IF i + k <= 64 THEN bits[i + k] ELSE bits[64]]

Or64(a, b) == [i \in 1..64 |-> IF a[i] = 1 \/ b[i] = 1 THEN 1 ELSE 0]

\* bits as i16: the low 16 bits, two's complement
AsI16(bits) == BitsValue(SubSeq(bits, 1, 15)) - (bits[16] * 32768)

\* i64::encode (to_be_bytes) and i64::decode (read_exact, from_be_bytes)
I64Encode(bits) == [j \in 1..8 |-> BitsValue(SubSeq(bits, 57 - (8 * (j - 1)), 64 - (8 * (j - 1))))]
I64Decode(bytes) ==
    IF Len(bytes) < 8 THEN Failure("UnexpectedEof")
    ELSE [ok |-> TRUE, rest |-> Drop(bytes, 8),
          value |-> [i \in 1..64 |->
                       (bytes[8 - ((i - 1) \div 8)] \div (2 ^ ((i - 1) % 8))) % 2]]

\* Position::encode
PositionEncode(self) ==
    LET val == Or64(Or64(Shl64(AndLow(AsI64(self.x), 26), 38),
                         Shl64(AndLow(AsI64(self.z), 26), 12)),
                    AndLow(AsI64(self.y), 12))
    IN  I64Encode(val)

\* Position::decode
PositionDecode(bytes) ==
    With(I64Decode(bytes), LAMBDA val :
        IF ~ val.ok THEN val
        ELSE [ok |-> TRUE, rest |-> val.rest,
              value |-> [x |-> AsI32(Shr64(val.value, 38)),
                         y |-> AsI16(Shr64(Shl64(val.value, 52), 52)),
                         z |-> AsI32(Shr64(Shl64(val.value, 26), 38))]])

\* coordinates at and around the ends of the 26-bit and 12-bit ranges
XZSamples == {-33554433, -33554432, -33554431, -1, 0, 1, 12345, 33554431, 33554432}
YSamples == {-2049, -2048, -1, 0, 1, 64, 2047, 2048}

(***************************************************************************)
(* NBT (ocelot-nbt).  A Tag is [type |-> its TagType id, value |-> its     *)
(* payload]: a number for Byte, Short and Int; the 64 bits for Long; the   *)
(* 4 or 8 bytes of the IEEE-754 pattern for Float and Double; the items     *)
(* for the arrays; the code points for String; [elem, items] for List; the *)
(* entries [name, tag] of the map, in the order of its iteration, for      *)
(* Compound.                                                               *)
(***************************************************************************)
TagType_End == 0
TagType_Byte == 1
TagType_Short == 2
TagType_Int == 3
TagType_Long == 4
TagType_Float == 5
TagType_Double == 6
TagType_ByteArray == 7
TagType_String == 8
TagType_List == 9
TagType_Compound == 10
TagType_IntArray == 11
TagType_LongArray == 12

Tag(type, value) == [type |-> type, value |-> value]
TagList(elem, items) == Tag(TagType_List, [elem |-> elem, items |-> items])
NamedTag(name, tag) == [name |-> name, tag |-> tag]

\* String::encode_binary: the length of the UTF-8 bytes as u16, the bytes
NbtStringEncode(s) ==
    With(Utf8(s), LAMBDA data : BeBytes(Len(data) % 65536, 2) \o data)

\* Vec<T>::encode_binary, given the bytes of the items
NbtVecEncode(items) == BeBytes(Len(items), 4) \o Flatten(items)

\* Tag::encode_binary
RECURSIVE TagEncode(_)
TagEncode(self) ==
    CASE self.type = TagType_Byte -> BeBytes(self.value, 1)
      [] self.type = TagType_Short -> BeBytes(self.value, 2)
      [] self.type = TagType_Int -> BeBytes(self.value, 4)
      [] self.type = TagType_Long -> I64Encode(self.value)
      [] self.type \in {TagType_Float, TagType_Double} -> self.value
      [] self.type = TagType_ByteArray ->
           NbtVecEncode([i \in 1..Len(self.value) |-> BeBytes(self.value[i], 1)])
      [] self.type = TagType_String -> NbtStringEncode(self.value)
      [] self.type = TagType_List ->
           <<self.value.elem>> \o BeBytes(Len(self.value.items), 4)
           \o Flatten([i \in 1..Len(self.value.items) |-> TagEncode(self.value.items[i])])
      [] self.type = TagType_Compound ->
           Flatten([i \in 1..Len(self.value) |->
                      NbtStringEncode(self.value[i].name) \o TagEncode(self.value[i].tag)])
           \o <<TagType_End>>
      [] self.type = TagType_IntArray ->
           NbtVecEncode([i \in 1..Len(self.value) |-> BeBytes(self.value[i], 4)])
      [] self.type = TagType_LongArray ->
           NbtVecEncode([i \in 1..Len(self.value) |-> I64Encode(self.value[i])])

\* from_be_bytes of a signed integer type of at most four bytes
SignedBe(bytes) ==
    BeValue(<<bytes[1] - (IF bytes[1] >= 128 THEN 256 ELSE 0)>> \o Tail(bytes))

\* the int_macro decode_binary: read_exact of n bytes
NbtRead(bytes, n) ==
    IF Len(bytes) < n THEN Failure("UnexpectedEof")
    ELSE [ok |-> TRUE, value |-> Take(bytes, n), rest |-> Drop(bytes, n)]

NbtIntDecode(bytes, n) ==
    With(NbtRead(bytes, n), LAMBDA buffer :
        IF ~ buffer.ok THEN buffer
        ELSE [ok |-> TRUE, value |-> SignedBe(buffer.value), rest |-> buffer.rest])

\* TagType::decode_binary: a u8, then from_id
TagTypeDecode(bytes) ==
    IF bytes = <<>> THEN Failure("UnexpectedEof")
    ELSE IF Head(bytes) > TagType_LongArray THEN Failure("InvalidData")
    ELSE [ok |-> TRUE, value |-> Head(bytes), rest |-> Tail(bytes)]

\* String::decode_binary: a u16 length, take(len).read_to_end, from_utf8
NbtStringDecode(bytes) ==
    IF Len(bytes) < 2 THEN Failure("UnexpectedEof")
    ELSE With(BeValue(Take(bytes, 2)), LAMBDA len :
             IF Len(bytes) - 2 < len THEN Failure("InvalidData")
             ELSE With(Utf8Decode(Take(Drop(bytes, 2), len)), LAMBDA s :
                      IF ~ s.ok THEN Failure("InvalidData")
                      ELSE [ok |-> TRUE, value |-> s.value, rest |-> Drop(bytes, 2 + len)]))

\* Vec<T>::decode_binary for a T of n bytes: the bytes of each item; a
\* negative length as usize is more than with_capacity can hold
NbtVecDecode(bytes, n) ==
    With(NbtIntDecode(bytes, 4), LAMBDA len :
        IF ~ len.ok THEN len
        ELSE IF len.value < 0 THEN Failure("panic")
        ELSE IF len.value > Len(len.rest) \div n THEN Failure("UnexpectedEof")
        ELSE [ok |-> TRUE, rest |-> Drop(len.rest, len.value * n),
              value |-> [i \in 1..len.value |->
                           SubSeq(len.rest, ((i - 1) * n) + 1, i * n)]])

\* HashMap::insert on the entries in the order of their first insertion
Insert(buffer, name, tag) ==
    IF \E i \in 1..Len(buffer) : buffer[i].name = name
    THEN [i \in 1..Len(buffer) |->
            IF buffer[i].name = name THEN [name |-> name, tag |-> tag] ELSE buffer[i]]
    ELSE Append(buffer, [name |-> name, tag |-> tag])

\* Tag::decode_binary, with the loop of the List arm (len items left,
\* buffer filled so far) and the loop of the Compound arm (tag_type read
\* last, buffer filled so far)
RECURSIVE TagDecode(_, _)
RECURSIVE ListItemsDecode(_, _, _, _)
RECURSIVE CompoundDecode(_, _, _)
ListItemsDecode_ByteItems(tag_type, bytes, len, buffer) ==
    IF len = 0 THEN [ok |-> TRUE, value |-> TagList(tag_type, buffer), rest |-> bytes]
    ELSE With(TagDecode(TagType_Byte, bytes), LAMBDA item :
             IF ~ item.ok THEN item
             ELSE ListItemsDecode(tag_type, item.rest, len - 1, Append(buffer, item.value)))

ListItemsDecode(tag_type, bytes, len, buffer) ==
    IF len = 0 THEN [ok |-> TRUE, value |-> TagList(tag_type, buffer), rest |-> bytes]
    ELSE With(TagDecode(tag_type, bytes), LAMBDA item :
             IF ~ item.ok THEN item
             ELSE ListItemsDecode(tag_type, item.rest, len - 1, Append(buffer, item.value)))

CompoundDecode(tag_type, bytes, buffer) ==
    IF tag_type = TagType_End
    THEN [ok |-> TRUE, value |-> Tag(TagType_Compound, buffer), rest |-> bytes]
    ELSE With(NbtStringDecode(bytes), LAMBDA name :
             IF ~ name.ok THEN name
             ELSE With(TagDecode(tag_type, name.rest), LAMBDA tag :
                      IF ~ tag.ok THEN tag
                      ELSE With(TagTypeDecode(tag.rest), LAMBDA next :
                               IF ~ next.ok THEN next
                               ELSE CompoundDecode(next.value, next.rest,
                                                   Insert(buffer, name.value, tag.value)))))

TagDecode(tag_type, bytes) ==
    LET Scalar(r) == IF ~ r.ok THEN r
                     ELSE [ok |-> TRUE, value |-> Tag(tag_type, r.value), rest |-> r.rest]
        Signed(r) == IF ~ r.ok THEN r
                     ELSE Scalar([r EXCEPT !.value =
                                     [i \in 1..Len(r.value) |-> SignedBe(r.value[i])]])
        Longs(r) == IF ~ r.ok THEN r
                    ELSE Scalar([r EXCEPT !.value =
                                    [i \in 1..Len(r.value) |-> I64Decode(r.value[i]).value]])
    IN  CASE tag_type = TagType_End -> Failure("InvalidData")
          [] tag_type = TagType_Byte -> Scalar(NbtIntDecode(bytes, 1))
          [] tag_type = TagType_Short -> Scalar(NbtIntDecode(bytes, 2))
          [] tag_type = TagType_Int -> Scalar(NbtIntDecode(bytes, 4))
          [] tag_type = TagType_Long ->
               IF ~ NbtRead(bytes, 8).ok THEN NbtRead(bytes, 8)
               ELSE Scalar(I64Decode(bytes))
          [] tag_type = TagType_Float -> Scalar(NbtRead(bytes, 4))
          [] tag_type = TagType_Double -> Scalar(NbtRead(bytes, 8))
          [] tag_type = TagType_ByteArray -> Signed(NbtVecDecode(bytes, 1))
          [] tag_type = TagType_String -> Scalar(NbtStringDecode(bytes))
          [] tag_type = TagType_List ->
               With(TagTypeDecode(bytes), LAMBDA elem :
                   IF ~ elem.ok THEN elem
                   ELSE With(NbtIntDecode(elem.rest, 4), LAMBDA len :
                            IF ~ len.ok THEN len
                            ELSE IF len.value < 0 THEN Failure("panic")
                            ELSE ListItemsDecode(elem.value, len.rest, len.value, <<>>)))
          [] tag_type = TagType_Compound ->
               With(TagTypeDecode(bytes), LAMBDA first :
                   IF ~ first.ok THEN first
                   ELSE CompoundDecode(first.value, first.rest, <<>>))
          [] tag_type = TagType_IntArray -> Signed(NbtVecDecode(bytes, 4))
          [] tag_type = TagType_LongArray -> Longs(NbtVecDecode(bytes, 8))

\* NamedTag::encode_binary and encode_binary_to_network
NamedTagEncode(self) ==
    <<self.tag.type>> \o NbtStringEncode(self.name) \o TagEncode(self.tag)
NamedTagEncodeToNetwork(self) == <<self.tag.type>> \o TagEncode(self.tag)

\* NamedTag::decode_binary: Ok(None) for the root type End
NamedTagDecode(bytes) ==
    With(TagTypeDecode(bytes), LAMBDA tag_type :
        IF ~ tag_type.ok THEN tag_type
        ELSE IF tag_type.value = TagType_End
        THEN [ok |-> TRUE, value |-> None, rest |-> tag_type.rest]
        ELSE With(NbtStringDecode(tag_type.rest), LAMBDA name :
                 IF ~ name.ok THEN name
                 ELSE With(TagDecode(tag_type.value, name.rest), LAMBDA tag :
                          IF ~ tag.ok THEN tag
                          ELSE [ok |-> TRUE, rest |-> tag.rest,
                                value |-> Some(NamedTag(name.value, tag.value))])))

NamedTagDecodeFromNetwork_ReadsName(bytes) == NamedTagDecode(bytes)

\* NamedTag::decode_binary_from_network
NamedTagDecodeFromNetwork(bytes) ==
    With(TagTypeDecode(bytes), LAMBDA tag_type :
        IF ~ tag_type.ok THEN tag_type
        ELSE IF tag_type.value = TagType_End
        THEN [ok |-> TRUE, value |-> None, rest |-> tag_type.rest]
        ELSE With(TagDecode(tag_type.value, tag_type.rest), LAMBDA tag :
                 IF ~ tag.ok THEN tag
                 ELSE [ok |-> TRUE, rest |-> tag.rest,
                       value |-> Some(NamedTag(<<>>, tag.value))]))

\* "name", "Bananrama", "hello world", "a", "b"
NameName == <<110, 97, 109, 101>>
Bananrama == <<66, 97, 110, 97, 110, 114, 97, 109, 97>>
HelloWorld == <<104, 101, 108, 108, 111, 32, 119, 111, 114, 108, 100>>

\* tags of every type but Compound and List
PlainTags ==
    << Tag(TagType_Byte, -128), Tag(TagType_Byte, 5),
       Tag(TagType_Short, -2), Tag(TagType_Short, 32767),
       Tag(TagType_Int, -1), Tag(TagType_Int, 65536),
       Tag(TagType_Long, AsI64(-5)), Tag(TagType_Long, AsI64(11)),
       Tag(TagType_Float, <<63, 0, 0, 0>>),
       Tag(TagType_Double, <<191, 240, 0, 0, 0, 0, 0, 1>>),
       Tag(TagType_ByteArray, <<>>), Tag(TagType_ByteArray, <<-1, 62>>),
       Tag(TagType_String, <<>>), Tag(TagType_String, Bananrama),
       Tag(TagType_String, <<97, 8364>>),
       Tag(TagType_IntArray, <<>>), Tag(TagType_IntArray, <<1, -1>>),
       Tag(TagType_LongArray, <<AsI64(7), AsI64(-7)>>) >>

\* lists of plain tags, of lists and of empty compounds
ListTags ==
    << TagList(TagType_End, <<>>),
      TagList(TagType_Byte, <<Tag(TagType_Byte, 1), Tag(TagType_Byte, -1)>>),
      TagList(TagType_String, <<Tag(TagType_String, Bananrama)>>),
      TagList(TagType_List,
              <<TagList(TagType_Int, <<Tag(TagType_Int, 7), Tag(TagType_Int, -7)>>),
                TagList(TagType_Int, <<>>)>>),
      TagList(TagType_List, <<TagList(TagType_List, <<TagList(TagType_Byte, <<>>)>>)>>),
      TagList(TagType_Compound, <<Tag(TagType_Compound, <<>>), Tag(TagType_Compound, <<>>)>>) >>

\* the compound of the 'hello world' sample, and others
HelloCompound == Tag(TagType_Compound, <<[name |-> NameName, tag |-> Tag(TagType_String, Bananrama)]>>)
CompoundTags ==
    << Tag(TagType_Compound, <<>>), HelloCompound,
      Tag(TagType_Compound, <<[name |-> <<97>>, tag |-> Tag(TagType_Byte, 5)]>>),
      Tag(TagType_Compound, <<[name |-> <<>>, tag |-> Tag(TagType_Int, -1)]>>),
      Tag(TagType_Compound,
          <<[name |-> <<97>>, tag |-> Tag(TagType_Int, 1)],
            [name |-> <<98>>, tag |-> TagList(TagType_Byte, <<Tag(TagType_Byte, 1)>>)]>>),
      Tag(TagType_Compound, <<[name |-> <<99>>, tag |-> HelloCompound]>>) >>

TagSamples == PlainTags \o ListTags \o CompoundTags

\* the 'hello world' sample of the tests: 0a 000b "hello world" 08 0004
\* "name" 0009 "Bananrama" 00
HelloWorldNbt ==
    <<TagType_Compound, 0, 11>> \o HelloWorld \o <<TagType_String, 0, 4>> \o NameName
    \o <<0, 9>> \o Bananrama \o <<TagType_End>>

\* traditional NBT files: the sample, an empty compound named "a", a string
\* named "name"
NbtFiles ==
    { HelloWorldNbt, <<TagType_Compound, 0, 1, 97, TagType_End>>,
      <<TagType_String, 0, 4>> \o NameName \o <<0, 9>> \o Bananrama,
      <<TagType_Compound, 0, 0, TagType_Byte, 0, 1, 98, 255, TagType_End>> }

\* byte strings whose first byte is the type End, and others that are no
\* NBT
EndRoots == { <<TagType_End>>, <<TagType_End, 0, 0>>, <<TagType_End, 1, 2, 3>> }
NotNbt == { <<>>, <<13>>, <<TagType_Byte>>, <<TagType_Compound, 0, 0, TagType_End, 7>> }

\* payloads after the element type and the length of a List: nothing, one
\* and two bytes, two Ints, a List of one Byte (twice), empty Compounds, a
\* String
ListPayloads ==
    { <<>>, <<5>>, <<5, 250>>, <<0, 0, 0, 1, 255, 255, 255, 254>>,
      <<TagType_Byte, 0, 0, 0, 1, 5>>,
      <<TagType_Byte, 0, 0, 0, 1, 5, TagType_Short, 0, 0, 0, 0>>,
      <<TagType_End, TagType_End>>, <<0, 1, 97, 0, 0>> }

\* the bytes of a List payload with a declared element type and length
ListBytes(elem, len, payload) == <<elem>> \o BeBytes(len, 4) \o payload

\* Identifier::from_string: the string is stored as it is
IdentifierFromString(namespaced_value) == [namespaced_value |-> namespaced_value]

\* Identifier::decode: BoundedString::<32767>::decode, then from_string
IdentifierDecode(bytes) ==
    With(BoundedStringDecode(MAX_STRING_LENGTH, bytes), LAMBDA namespaced_value :
        IF ~ namespaced_value.ok THEN namespaced_value
        ELSE [ok |-> TRUE, value |-> IdentifierFromString(namespaced_value.value),
              rest |-> namespaced_value.rest])

\* to_string of a location, then try_from of the string
ResourceLocationRoundTrip(value) ==
    With(ResourceLocationTryFrom(value), LAMBDA first :
        [first |-> first,
         again |-> IF first.ok
                   THEN ResourceLocationTryFrom(ResourceLocationToString(first.value))
                   ELSE NoValue])

\* the longest key string of the calls
IdLen == 3

\* key strings over "a", "/", ":" and "A"
IdStrings == UNION {[1..n -> {97, 47, Colon, 65}] : n \in 0..IdLen}

\* the enums declared with #[codec(via = ...)], variants in declaration order
Variant(ident, discriminant) == [ident |-> ident, discriminant |-> discriminant]
EnumDecls ==
    << [name |-> "Intent", via |-> "VarInt",
        variants |-> <<Variant("Status", 1), Variant("Login", 2), Variant("Transfer", 3)>>],
       [name |-> "ChatMode", via |-> "VarInt",
        variants |-> <<Variant("Enabled", 0), Variant("CommandsOnly", 1),
                       Variant("Hidden", 2)>>],
       [name |-> "MainHand", via |-> "VarInt",
        variants |-> <<Variant("Left", 0), Variant("Right", 1)>>],
       [name |-> "ParticleStatus", via |-> "VarInt",
        variants |-> <<Variant("All", 0), Variant("Decreased", 1), Variant("Minimal", 2)>>],
       [name |-> "GameEvent", via |-> "u8",
        variants |-> <<Variant("NoRespawnBlockAvailable", 0), Variant("BeginRaining", 1),
                       Variant("EndRaining", 2), Variant("ChangeGameMode", 3),
                       Variant("WinGame", 4), Variant("DemoEvent", 5),
                       Variant("ArrowHitPlayer", 6), Variant("RainLevelChange", 7),
                       Variant("ThunderLevelChange", 8),
                       Variant("PlayPufferfishStingSound", 9),
                       Variant("PlayElderGuardianMobAppearance", 10),
                       Variant("EnableRespawnScreen", 11), Variant("LimitedCrafting", 12),
                       Variant("StartWaitingForLevelChunks", 13)>>],
       [name |-> "GameMode", via |-> "i8",
        variants |-> <<Variant("Undefined", -1), Variant("Survival", 0),
                       Variant("Creative", 1), Variant("Adventure", 2),
                       Variant("Spectator", 3)>>] >>

\* the backing codec: VarInt, or to_be_bytes / read_exact of one byte
BackingEncode(via, id) == IF via = "VarInt" THEN VarIntEncode(id) ELSE BeBytes(id, 1)

BackingDecode(via, bytes) ==
    IF via = "VarInt"
    THEN With(VarIntDecode(bytes), LAMBDA id :
             IF ~ id.ok THEN Failure(id.err)
             ELSE [ok |-> TRUE, value |-> id.value, rest |-> Drop(bytes, id.used)])
    ELSE IF bytes = <<>> THEN Failure("UnexpectedEof")
    ELSE [ok |-> TRUE, rest |-> Tail(bytes),
          value |-> IF via = "i8" THEN SignedBe(<<bytes[1]>>) ELSE bytes[1]]

\* the derived encode: the arm of the variant writes its discriminant
EnumEncode(decl, ident) ==
    LET i == CHOOSE i \in 1..Len(decl.variants) : decl.variants[i].ident = ident
    IN  BackingEncode(decl.via, decl.variants[i].discriminant)

ArmMatches_AtLeast(id, discriminant) == id >= discriminant

\* a match arm  discriminant => Ok(Self::ident)
ArmMatches(id, discriminant) == id = discriminant

\* the derived decode: the backing value, then the first arm that matches;
\* the arm _ is the InvalidData error
EnumDecode(decl, bytes) ==
    With(BackingDecode(decl.via, bytes), LAMBDA id :
        IF ~ id.ok THEN id
        ELSE LET arms == {i \in 1..Len(decl.variants) :
                             ArmMatches(id.value, decl.variants[i].discriminant)}
             IN  IF arms = {} THEN Failure("InvalidData")
                 ELSE [ok |-> TRUE, rest |-> id.rest,
                       value |-> decl.variants[CHOOSE i \in arms :
                                                  \A j \in arms : i <= j].ident])

\* the largest backing value of the calls
EnumRange == 15

\* backing values: a u8 has no negative ones
BackingValues(via) == IF via = "u8" THEN 0..EnumRange ELSE -2..EnumRange

\* lengths in characters around the range of the u16 prefix; "a" is one
\* byte, U+20AC is three
NbtLengths ==
    { [n |-> n, ch |-> 97] : n \in {0, 1, 2, 65535, 65536} }
    \cup { [n |-> n, ch |-> 8364] : n \in {1, 2} }

\* what a reader of the written bytes sees: the bytes before the prefix, the
\* two bytes of the prefix and the number of bytes that follow them
Written(bytes, at) ==
    [before |-> Take(bytes, at - 1), prefix |-> SubSeq(bytes, at, at + 1),
     following |-> Len(bytes) - (at + 1)]

\* PrefixedArray::<u8>::decode: the size VarInt, then decode_items of
\* size as usize (a negative size is above isize::MAX: Vec::with_capacity
\* panics)
PrefixedArrayDecode(bytes) ==
    With(VarIntDecode(bytes), LAMBDA size :
        IF ~ size.ok THEN [ok |-> FALSE, err |-> size.err, used |-> size.used, read |-> 0]
        ELSE IF size.value < 0
        THEN [ok |-> FALSE, err |-> "panic", used |-> size.used, read |-> 0]
        ELSE DecodeItems(Drop(bytes, size.used), size.value, <<>>, size.used))

\* VarInt::decode, then VarInt::encode of the value it gave
VarIntReencode(bytes) ==
    With(VarIntDecode(bytes), LAMBDA decoded :
        [decoded |-> decoded,
         again |-> IF decoded.ok THEN VarIntEncode(decoded.value) ELSE <<>>])

\* the bytes VarInt::encode writes for some values
Canonical == { VarIntEncode(v) : v \in {0, 1, 127, 128, 25565, -1, MinI32} }

InitCalls ==
    /\ Idle
    /\ \/ \E bytes \in VarBytes : Call("VarInt::decode", bytes)
       \/ \E bytes \in VarBytes : Call("VarLong::decode", bytes)
       \/ \E m \in MaxSamples, s \in StringSamples :
             Call("BoundedString::new", [max |-> m, s |-> s])
       \/ \E s \in LongSamples : Call("BoundedString::new", [max |-> 40000, s |-> s])
       \/ \E m \in MaxSamples, s \in StringSamples, rest \in Trailing :
             Call("BoundedString::decode",
                  [max |-> m, bytes |-> BoundedStringEncode(s) \o rest])
       \/ \E m \in MaxSamples, bad \in BadUtf8 :
             Call("BoundedString::decode", [max |-> m, bytes |-> ByteArrayOf(bad)])
       \/ \E m \in MaxSamples, bytes \in { <<>>, <<128>>, <<3, 97>>, <<255, 255, 255, 255, 15>> } :
             Call("BoundedString::decode", [max |-> m, bytes |-> bytes])
       \/ \E m \in ArrayMax, items \in ArraySamples :
             Call("BoundedPrefixedArray::encode", [max |-> m, items |-> items])
       \/ \E m \in ArrayMax, n \in {-1, 0, 1, 2, 3, 4, 5, 200, 2147483647}, items \in ArraySamples :
             Call("BoundedPrefixedArray::decode",
                  [max |-> m, size |-> n, bytes |-> VarIntEncode(n) \o items])
       \/ \E b \in BOOLEAN : Call("bool::encode", b)
       \/ \E b \in 0..255, rest \in Trailing : Call("bool::decode", <<b>> \o rest)
       \/ Call("bool::decode", <<>>)
       \/ \E pkt \in RegistrySamples : Call("RegistryDataPacket round trip", pkt)
       \/ \E x \in XZSamples, y \in YSamples, z \in XZSamples :
             Call("Position round trip", [x |-> x, y |-> y, z |-> z])
       \/ \E bytes \in { <<>>, Chars(7, 255) } : Call("Position::decode", bytes)
       \/ \E i \in 1..Len(TagSamples) : Call("Tag round trip", TagSamples[i])
       \/ \E bytes \in NbtFiles : Call("NamedTag re-encode", bytes)
       \/ \E bytes \in NbtFiles \cup EndRoots \cup NotNbt :
             Call("NamedTag::decode_binary", bytes)
       \/ \E bytes \in NbtFiles \cup EndRoots \cup NotNbt :
             Call("NamedTag::decode_binary_from_network", bytes)
       \/ \E i \in 1..Len(TagSamples) : Call("NamedTag framings", TagSamples[i])
       \/ \E elem \in 0..13, len \in {-1, 0, 1, 2}, payload \in ListPayloads :
             Call("Tag::decode_binary",
                  [tag_type |-> TagType_List, elem |-> elem, len |-> len,
                   bytes |-> ListBytes(elem, len, payload)])
       \/ \E namespace \in IdStrings, path \in IdStrings :
             /\ Len(namespace) + Len(path) <= IdLen
             /\ Call("ResourceLocation::from", [namespace |-> namespace, path |-> path])
       \/ \E value \in IdStrings : Call("ResourceLocation::try_from", value)
       \/ \E value \in IdStrings :
             Call("Identifier::decode",
                  [namespaced_value |-> value, bytes |-> BoundedStringEncode(value)])
       \/ \E e \in 1..Len(EnumDecls) : \E v \in 1..Len(EnumDecls[e].variants) :
             Call("enum round trip", [enum |-> e, variant |-> v])
       \/ \E e \in 1..Len(EnumDecls) : \E id \in BackingValues(EnumDecls[e].via) :
          \E more \in {<<>>, <<7>>}, cut \in BOOLEAN :
             Call("enum decode",
                  [enum |-> e, id |-> id, cut |-> cut,
                   bytes |-> IF cut THEN <<>>
                             ELSE BackingEncode(EnumDecls[e].via, id) \o more])
       \/ \E text \in NbtLengths : Call("String::encode_binary", text)
       \/ \E text \in NbtLengths :
             text.n \in {0, 2, 65536} /\ Call("NamedTag::encode_binary", text)
       \/ \E n \in {MinI32, -2, -1, 0, 1, 2, 3}, items \in ArraySamples :
             Call("PrefixedArray::decode",
                  [size |-> n, bytes |-> VarIntEncode(n) \o items])
       \/ \E bytes \in VarBytes \cup Canonical : Call("VarInt re-encode", bytes)

CallVarIntDecode == Called("VarInt::decode") /\ Returns(VarIntDecode(codec.arg))

CallVarLongDecode == Called("VarLong::decode") /\ Returns(VarLongDecode(codec.arg))

CallBoundedStringNew ==
    /\ Called("BoundedString::new")
    /\ Returns(BoundedStringNewResult(codec.arg.max, codec.arg.s))

CallBoundedStringDecode ==
    /\ Called("BoundedString::decode")
    /\ Returns(BoundedStringDecode(codec.arg.max, codec.arg.bytes))

CallBoundedPrefixedArrayEncode ==
    /\ Called("BoundedPrefixedArray::encode")
    /\ Returns(BoundedPrefixedArrayEncode(codec.arg.max, codec.arg.items))

CallBoundedPrefixedArrayDecode ==
    /\ Called("BoundedPrefixedArray::decode")
    /\ Returns(BoundedPrefixedArrayDecode(codec.arg.max, codec.arg.bytes))

CallBoolEncode ==
    /\ Called("bool::encode")
    /\ Returns([ok |-> TRUE, written |-> BoolEncode(codec.arg)])

CallBoolDecode ==
    /\ Called("bool::decode")
    /\ Returns(BoolRead(codec.arg))

CallRegistryDataRoundTrip ==
    /\ Called("RegistryDataPacket round trip")
    /\ Returns(RegistryDataRoundTrip(codec.arg))

CallPositionRoundTrip ==
    /\ Called("Position round trip")
    /\ Returns([written |-> PositionEncode(codec.arg),
                decoded |-> PositionDecode(PositionEncode(codec.arg))])

CallPositionDecode ==
    /\ Called("Position::decode")
    /\ Returns(PositionDecode(codec.arg))

\* Tag::encode_binary, then Tag::decode_binary with the tag's type
CallTagRoundTrip ==
    /\ Called("Tag round trip")
    /\ Returns(TagDecode(codec.arg.type, TagEncode(codec.arg)))

\* NamedTag::decode_binary, then NamedTag::encode_binary on its result
CallNamedTagReencode ==
    /\ Called("NamedTag re-encode")
    /\ LET nbt == NamedTagDecode(codec.arg)
       IN  Returns([decoded |-> nbt,
                    written |-> IF nbt.ok /\ nbt.value # None
                                THEN NamedTagEncode(nbt.value[1]) ELSE <<>>])

CallNamedTagDecode ==
    /\ Called("NamedTag::decode_binary")
    /\ Returns(NamedTagDecode(codec.arg))

CallNamedTagDecodeFromNetwork ==
    /\ Called("NamedTag::decode_binary_from_network")
    /\ Returns(NamedTagDecodeFromNetwork(codec.arg))

\* NamedTag("", tag) through encode_binary and decode_binary, and through
\* encode_binary_to_network and decode_binary_from_network
CallNamedTagFramings ==
    /\ Called("NamedTag framings")
    /\ LET self == NamedTag(<<>>, codec.arg)
       IN  Returns([traditional |-> NamedTagEncode(self),
                    network |-> NamedTagEncodeToNetwork(self),
                    from_traditional |-> NamedTagDecode(NamedTagEncode(self)),
                    from_network |-> NamedTagDecodeFromNetwork(NamedTagEncodeToNetwork(self))])

CallTagDecode ==
    /\ Called("Tag::decode_binary")
    /\ Returns(TagDecode(codec.arg.tag_type, codec.arg.bytes))

CallResourceLocationFrom ==
    /\ Called("ResourceLocation::from")
    /\ Returns(ResourceLocationFrom(codec.arg.namespace, codec.arg.path))

CallResourceLocationTryFrom ==
    /\ Called("ResourceLocation::try_from")
    /\ Returns(ResourceLocationRoundTrip(codec.arg))

CallIdentifierDecode ==
    /\ Called("Identifier::decode")
    /\ Returns(IdentifierDecode(codec.arg.bytes))

CallEnumRoundTrip ==
    /\ Called("enum round trip")
    /\ LET decl == EnumDecls[codec.arg.enum]
           bytes == EnumEncode(decl, decl.variants[codec.arg.variant].ident)
       IN  Returns([bytes |-> bytes, back |-> EnumDecode(decl, bytes)])

CallEnumDecode ==
    /\ Called("enum decode")
    /\ Returns(EnumDecode(EnumDecls[codec.arg.enum], codec.arg.bytes))

CallNbtStringEncode ==
    /\ Called("String::encode_binary")
    /\ Returns(Written(NbtStringEncode(Chars(codec.arg.n, codec.arg.ch)), 1))

CallNamedTagEncode ==
    /\ Called("NamedTag::encode_binary")
    /\ Returns(Written(NamedTagEncode(NamedTag(Chars(codec.arg.n, codec.arg.ch),
                                               Tag(TagType_Byte, 5))), 2))

CallPrefixedArrayDecode ==
    /\ Called("PrefixedArray::decode")
    /\ Returns(PrefixedArrayDecode(codec.arg.bytes))

CallVarIntReencode ==
    /\ Called("VarInt re-encode")
    /\ Returns(VarIntReencode(codec.arg))

NextCalls ==
    \/ CallVarIntDecode
    \/ CallVarLongDecode
    \/ CallBoundedStringNew
    \/ CallBoundedStringDecode
    \/ CallBoundedPrefixedArrayEncode
    \/ CallBoundedPrefixedArrayDecode
    \/ CallBoolEncode
    \/ CallBoolDecode
    \/ CallRegistryDataRoundTrip
    \/ CallPositionRoundTrip
    \/ CallPositionDecode
    \/ CallTagRoundTrip
    \/ CallNamedTagReencode
    \/ CallNamedTagDecode
    \/ CallNamedTagDecodeFromNetwork
    \/ CallNamedTagFramings
    \/ CallTagDecode
    \/ CallResourceLocationFrom
    \/ CallResourceLocationTryFrom
    \/ CallIdentifierDecode
    \/ CallEnumRoundTrip
    \/ CallEnumDecode
    \/ CallNbtStringEncode
    \/ CallNamedTagEncode
    \/ CallPrefixedArrayDecode
    \/ CallVarIntReencode

SpecCalls == InitCalls /\ [][NextCalls]_vars

(***************************************************************************)
(* Reading a connection's log.  A frame that reaches a handler leaves one  *)
(* line (read_packet's or the unknown-id line); what the handler prints    *)
(* and sends follows it, up to the next such line.                         *)
(***************************************************************************)
IsFrame(e) == e.dir \in {"C->S", "???"}

FrameIdx(c) == {i \in 1..Len(log[c]) : IsFrame(log[c][i])}

\* frame i of c is a typed packet of this name, dispatched in state st
IsPacket(c, i, name, st) ==
    /\ log[c][i].dir = "C->S"
    /\ log[c][i].name = name
    /\ log[c][i].state = st

LastOf(c, i) ==
    LET later == {j \in FrameIdx(c) : j > i}
    IN  IF later = {} THEN Len(log[c])
        ELSE (CHOOSE j \in later : \A k \in later : j <= k) - 1

\* a panic in line 167 (the frame's buffer), 172 (the packet id) or 145
\* (read_packet) comes before the frame's own line: it belongs to the frame
\* read next
OfHandler(e) == ~ (e.dir = "panic" /\ e.line \in {145, 167, 172})

\* the lines the handler of frame i left after the frame's own line
Section(c, i) == SelectSeq(SubSeq(log[c], i + 1, LastOf(c, i)), OfHandler)

IsSend(e) == e.dir = "S->C"
IsPanic(e) == e.dir = "panic"

\* the packets written to the stream while frame i was handled
Sent(c, i) ==
    LET before == Len(SelectSeq(SubSeq(log[c], 1, i), IsSend))
    IN  SubSeq(out[c], before + 1, before + Len(SelectSeq(Section(c, i), IsSend)))

\* a write failed while frame i was handled (send_packet's unwrap)
WriteFailed(c, i) ==
    \E k \in 1..Len(Section(c, i)) :
        IsPanic(Section(c, i)[k]) /\ Section(c, i)[k].line = 135

\* the handler of frame i panicked, in whatever line
Panicked(c, i) == \E k \in 1..Len(Section(c, i)) : IsPanic(Section(c, i)[k])

\* the connection's state when the handler of frame i was done
StateAfter(c, i) ==
    IF LastOf(c, i) < Len(log[c]) /\ IsFrame(log[c][LastOf(c, i) + 1])
    THEN log[c][LastOf(c, i) + 1].state
    ELSE state[c]

(***************************************************************************)
(* C1.  A connection starts in Handshaking.  A Handshake processed in      *)
(* Handshaking leaves the state Status for intent 1 and Login for intent   *)
(* 2 or 3, and nothing is written or printed in response.                  *)
(***************************************************************************)
C1_HandshakeSetsState ==
    \A c \in Conns :
        /\ (pc[c] # "idle" /\ FrameIdx(c) = {}) => state[c] = "Handshaking"
        /\ \A i \in FrameIdx(c) :
              IsPacket(c, i, "Handshake", "Handshaking") =>
                  /\ \E v \in 1..3 :
                        /\ log[c][i].data.intent = IntentDecode(v).value
                        /\ StateAfter(c, i) = IF v = 1 THEN "Status" ELSE "Login"
                  /\ Sent(c, i) = <<>>
                  /\ Section(c, i) = <<>>

C1_Witness ==
    \E c \in Conns : \E i \in FrameIdx(c) :
        /\ IsPacket(c, i, "Handshake", "Handshaking")
        /\ log[c][i].data.intent = "Transfer"
        /\ state[c] = "Login"

(***************************************************************************)
(* C2.  A LoginStart(name, uuid) processed in Login makes the server write *)
(* exactly one LoginSuccess with that uuid, that name and no properties,   *)
(* and leaves the state Login; only a failed write keeps it from that.     *)
(***************************************************************************)
C2_LoginStartAnswered ==
    \A c \in Conns : \A i \in FrameIdx(c) :
        IsPacket(c, i, "Login Start", "Login") =>
            /\ StateAfter(c, i) = "Login"
            /\ IF Panicked(c, i)
               THEN WriteFailed(c, i) /\ Sent(c, i) = <<>>
               ELSE /\ Sent(c, i) = << LoginSuccessPacket(log[c][i].data.player_uuid,
                                                           log[c][i].data.name, <<>>) >>
                    /\ Section(c, i) = << [dir |-> "S->C", name |-> "Login Success",
                                           state |-> "Login", id |-> 2] >>

C2_Witness ==
    \E c \in Conns : \E i \in FrameIdx(c) :
        /\ IsPacket(c, i, "Login Start", "Login")
        /\ log[c][i].data.name = Steve
        /\ Len(Sent(c, i)) = 1
        /\ Sent(c, i)[1].username = Steve

(***************************************************************************)
(* C3.  A LoginAcknowledged processed in Login leaves the state            *)
(* Configuration, and nothing is written in response.                      *)
(***************************************************************************)
C3_LoginAcknowledged ==
    \A c \in Conns : \A i \in FrameIdx(c) :
        IsPacket(c, i, "Login Acknowledged", "Login") =>
            /\ log[c][i].id = 3
            /\ StateAfter(c, i) = "Configuration"
            /\ Sent(c, i) = <<>>
            /\ Section(c, i) = <<>>

C3_Witness ==
    \E c \in Conns : \E i \in FrameIdx(c) :
        /\ IsPacket(c, i, "Login Acknowledged", "Login")
        /\ state[c] = "Configuration"

(***************************************************************************)
(* C4.  A serverbound KnownPacks processed in Configuration makes the      *)
(* server write one RegistryData per registry of the table, in table       *)
(* order, each with the registry's entries and their NBT bytes, and then   *)
(* one FinishConfiguration, the last packet written for the frame; only a  *)
(* failed write cuts the sequence short.                                   *)
(***************************************************************************)
\* packet p is the RegistryData of registry r of the table
CarriesRegistry(p, r) ==
    /\ p.name = "Registry Data"
    /\ p.id = 7
    /\ ResourceLocationToString(p.registry_id) = r.registry_id
    /\ Len(p.entries) = Len(r.entries)
    /\ \A j \in 1..Len(r.entries) :
          /\ ResourceLocationToString(p.entries[j].id) = r.entries[j].name
          /\ p.entries[j].data = Some(r.entries[j].nbt_bytes)

C4_RegistryPush ==
    \A c \in Conns : \A i \in FrameIdx(c) :
        IsPacket(c, i, "Known Packs", "Configuration") =>
            LET N == Len(SYNCED_REGISTRIES)
                sent == Sent(c, i)
            IN  /\ Len(sent) <= N + 1
                /\ \A k \in 1..Len(sent) :
                      IF k <= N THEN CarriesRegistry(sent[k], SYNCED_REGISTRIES[k])
                      ELSE sent[k] = [name |-> "Finish Configuration", id |-> 3]
                /\ IF Panicked(c, i) THEN WriteFailed(c, i) /\ Len(sent) <= N
                   ELSE Len(sent) = N + 1
                /\ StateAfter(c, i) = "Configuration"

C4_Witness ==
    \E c \in Conns : \E i \in FrameIdx(c) :
        /\ IsPacket(c, i, "Known Packs", "Configuration")
        /\ Len(Sent(c, i)) = Len(SYNCED_REGISTRIES) + 1
        /\ Sent(c, i)[Len(Sent(c, i))].name = "Finish Configuration"

(***************************************************************************)
(* C5.  An AcknowledgeFinishConfiguration processed in Configuration sets  *)
(* the state to Play and then writes Login, GameEvent(                     *)
(* StartWaitingForLevelChunks, 0.0) and SynchronizePlayerPosition with     *)
(* teleport id 1 and no flags, in this order and nothing else; the state   *)
(* is Play at each of the writes.  Only a failed write cuts the sequence   *)
(* short.                                                                  *)
(***************************************************************************)
C5_EnterPlay ==
    \A c \in Conns : \A i \in FrameIdx(c) :
        IsPacket(c, i, "Acknowledge Finish Configuration", "Configuration") =>
            LET sent == Sent(c, i)
                lines == SelectSeq(Section(c, i), IsSend)
            IN  /\ log[c][i].id = 3
                /\ StateAfter(c, i) = "Play"
                /\ Len(sent) <= 3
                /\ Len(sent) >= 1 => sent[1].name = "Login" /\ sent[1].id = 48
                /\ Len(sent) >= 2 =>
                      sent[2] = [name |-> "Game Event", id |-> 38, event |-> 13, value |-> 0]
                /\ Len(sent) >= 3 =>
                      /\ sent[3].name = "Synchronize Player Position"
                      /\ sent[3].id = 70
                      /\ sent[3].teleport_id = 1
                      /\ sent[3].flags = {}
                /\ \A k \in 1..Len(lines) : lines[k].state = "Play"
                /\ IF Panicked(c, i) THEN WriteFailed(c, i) /\ Len(sent) < 3
                   ELSE Len(sent) = 3

C5_Witness ==
    \E c \in Conns : \E i \in FrameIdx(c) :
        /\ IsPacket(c, i, "Acknowledge Finish Configuration", "Configuration")
        /\ Len(Sent(c, i)) = 3
        /\ state[c] = "Play"

(***************************************************************************)
(* C6.  A ClientInformation processed in Configuration makes the server    *)
(* write exactly one clientbound KnownPacks whose list holds the pack      *)
(* minecraft:core, and leaves the state Configuration; only a failed       *)
(* write keeps it from that.                                               *)
(***************************************************************************)
C6_ClientInformationAnswered ==
    \A c \in Conns : \A i \in FrameIdx(c) :
        IsPacket(c, i, "Client Information", "Configuration") =>
            /\ log[c][i].id = 0
            /\ StateAfter(c, i) = "Configuration"
            /\ IF Panicked(c, i)
               THEN WriteFailed(c, i) /\ Sent(c, i) = <<>>
               ELSE /\ Len(Sent(c, i)) = 1
                    /\ Sent(c, i)[1].name = "Known Packs"
                    /\ Sent(c, i)[1].id = 14
                    /\ \E k \in 1..Len(Sent(c, i)[1].known_packs) :
                          /\ Sent(c, i)[1].known_packs[k].namespace = Minecraft
                          /\ Sent(c, i)[1].known_packs[k].id = <<99, 111, 114, 101>>

C6_Witness ==
    \E c \in Conns : \E i \in FrameIdx(c) :
        /\ IsPacket(c, i, "Client Information", "Configuration")
        /\ Len(Sent(c, i)) = 1
        /\ Sent(c, i)[1].name = "Known Packs"

(***************************************************************************)
(* C7.  An EncryptionResponse whose verify token decrypts to bytes of      *)
(* which the first 4 differ from the connection's sent_verify_token ends   *)
(* the connection: it is the last frame of the connection that is          *)
(* dispatched, the connection is not running any more (closed by the       *)
(* break when the shared secret decrypted as well), and nothing is         *)
(* written for it, so no LoginSuccess.                                     *)
(***************************************************************************)
\* frame i of c is an EncryptionResponse whose verify token decrypts to a
\* buffer that does not start with the token of the connection
TokenMismatch(c, i) ==
    /\ IsPacket(c, i, "Encryption Response", "Login")
    /\ PrivateDecrypt(log[c][i].data.verify_token).ok
    /\ \E k \in 1..4 :
          PrivateDecrypt(log[c][i].data.verify_token).buf[k] # sent_verify_token[c][k]

C7_TokenMismatchCloses ==
    \A c \in Conns : \A i \in FrameIdx(c) :
        TokenMismatch(c, i) =>
            /\ pc[c] \in {"closed", "panicked"}
            /\ PrivateDecrypt(log[c][i].data.shared_secret).ok => pc[c] = "closed"
            /\ \A j \in FrameIdx(c) : j <= i
            /\ Sent(c, i) = <<>>
            /\ \A k \in 1..Len(Section(c, i)) : ~ IsSend(Section(c, i)[k])

C7_Witness ==
    \E c \in Conns : \E i \in FrameIdx(c) :
        /\ TokenMismatch(c, i)
        /\ PrivateDecrypt(log[c][i].data.shared_secret).ok
        /\ player[c].username # None
        /\ pc[c] = "closed"

(***************************************************************************)
(* C8.  Statement of the claim: an EncryptionResponse handled in Login     *)
(* with a Crypto failure (a decryption fails, the verify token does not    *)
(* match) or an External failure (the session service answers with a       *)
(* status other than 200) terminates the connection: the connection is     *)
(* not running afterwards, no later frame of it is dispatched and no       *)
(* packet is written for the frame.  The program violates it: on a status  *)
(* other than 200 it prints the status and reads the next frame.           *)
(***************************************************************************)
CryptoFailure(c, i) ==
    \/ ~ PrivateDecrypt(log[c][i].data.shared_secret).ok
    \/ ~ PrivateDecrypt(log[c][i].data.verify_token).ok
    \/ TokenMismatch(c, i)

\* the else branch of `response.status() == 200` printed the status
ExternalFailure(c, i) ==
    \E k \in 1..Len(Section(c, i)) : Section(c, i)[k] = PrintEntry("status")

C8_LoginFailureTerminates ==
    \A c \in Conns : \A i \in FrameIdx(c) :
        ( /\ IsPacket(c, i, "Encryption Response", "Login")
          /\ CryptoFailure(c, i) \/ ExternalFailure(c, i) ) =>
            /\ pc[c] \in {"closed", "panicked"}
            /\ \A j \in FrameIdx(c) : j <= i
            /\ Sent(c, i) = <<>>

(***************************************************************************)
(* C9.  A step that dispatches a frame to a `_` branch, in whatever        *)
(* state, only adds the "???" line to the log: the connection's state is   *)
(* unchanged, nothing is written to the client, and the connection is      *)
(* running, about to read the next frame.                                  *)
(***************************************************************************)
\* this step logged a frame of c as unknown
DroppedFrame(c) ==
    /\ Len(log'[c]) > Len(log[c])
    /\ log'[c][Len(log[c]) + 1].dir = "???"

C9_UnknownDropped ==
    [][\A c \in Conns :
          DroppedFrame(c) =>
              /\ log'[c] = Append(log[c], UnknownEntry(state[c], log'[c][Len(log'[c])].id))
              /\ Dispatch(state[c], log'[c][Len(log'[c])].id) = "???"
              /\ state'[c] = state[c]
              /\ out'[c] = out[c]
              /\ player'[c] = player[c]
              /\ pc[c] = "running" /\ pc'[c] = "running"]_vars

\* an unknown frame was dropped and the same connection has handled a typed
\* packet after it
C9_Witness ==
    \E c \in Conns : \E i \in FrameIdx(c) : \E j \in FrameIdx(c) :
        /\ log[c][i].dir = "???"
        /\ j > i
        /\ log[c][j].dir = "C->S"
        /\ log[c][j].state = log[c][i].state

(***************************************************************************)
(* C10.  Statement of the claim: a frame dispatched in Login with one of   *)
(* the ids 0x00 .. 0x04 goes to a typed decoder, never to the unknown-id   *)
(* branch.  The program violates it: its Login match has arms for 0x00,    *)
(* 0x01 and 0x03 only, so LoginPluginResponse (0x02) and CookieResponse    *)
(* (0x04) are logged as "???".                                             *)
(***************************************************************************)
C10_LoginIdsRecognized ==
    \A c \in Conns : \A i \in FrameIdx(c) :
        ( /\ log[c][i].state = "Login"
          /\ log[c][i].id \in {LoginStartPacket_ID, EncryptionResponsePacket_ID,
                               LoginPluginResponsePacket_ID, LoginAcknowledgedPacket_ID,
                               CookieResponsePacket_ID} ) =>
            log[c][i].dir = "C->S"

(***************************************************************************)
(* C11.  When the unread bytes of a running connection start with no       *)
(* readable frame (the length VarInt goes past five bytes or is negative,  *)
(* or the client has closed the stream inside the length or before the     *)
(* declared number of body bytes),                                         *)
(* the step the connection's task takes ends the task: no frame line is    *)
(* logged, the state and the player are as before and nothing is written.  *)
(***************************************************************************)
\* the next frame of c cannot be read
FramingFailure(c) ==
    LET len == VarIntDecode(Unread(c))
    IN  /\ pc[c] = "running"
        /\ \/ ~ len.ok /\ len.err = "InvalidData"
           \/ len.ok /\ len.value < 0
           \/ inbound[c].closed /\ ~ len.ok
           \/ inbound[c].closed /\ len.ok /\ Len(Unread(c)) < len.used + len.value

\* this step is one of the task of c, not of its client
TaskStep(c) ==
    \/ pc'[c] # pc[c]
    \/ log'[c] # log[c]
    \/ inbound'[c].read # inbound[c].read

C11_FramingFailureTerminates ==
    [][\A c \in Conns :
          (FramingFailure(c) /\ TaskStep(c)) =>
              /\ pc'[c] \in {"closed", "panicked"}
              /\ pc'[c] = "panicked" <=> VarIntDecode(Unread(c)).ok
                                          /\ VarIntDecode(Unread(c)).value < 0
              /\ SelectSeq(log'[c], IsFrame) = SelectSeq(log[c], IsFrame)
              /\ log'[c] \in {log[c], Append(log[c], PanicEntry(167))}
              /\ state'[c] = state[c]
              /\ player'[c] = player[c]
              /\ out'[c] = out[c]
              /\ wire'[c] = wire[c]]_vars

\* the client closed the stream two bytes into a frame of four, after the
\* login frames: the task has ended in Configuration by the break
C11_Witness ==
    \E c \in Conns :
        /\ pc[c] = "closed"
        /\ inbound[c].closed
        /\ inbound[c].bytes = LoginChunk \o <<4, 0>>
        /\ inbound[c].read = Len(inbound[c].bytes)
        /\ state[c] = "Configuration"
        /\ Len(SelectSeq(log[c], IsFrame)) = 4

(***************************************************************************)
(* C12.  Statement of the claim: a frame that was received whole and whose *)
(* packet id or typed body does not decode is logged and dropped, and the  *)
(* connection goes on reading: no connection task ends by the failure of   *)
(* a decode.  The program violates it: the packet id is decoded with       *)
(* unwrap() (main.rs 172) and so is every typed body (read_packet, main.rs *)
(* 145), so the failure is a panic that ends the task.                     *)
(***************************************************************************)
C12_DecodeFailureDropped ==
    \A c \in Conns : \A k \in 1..Len(log[c]) :
        IsPanic(log[c][k]) => log[c][k].line \notin {145, 172}

(***************************************************************************)
(* C13.  On one connection the frames are handled in the order of their    *)
(* arrival, none is taken from the stream before the one before it was     *)
(* handled, and the bytes written to the client are the frames of the      *)
(* packets the handlers sent, whole and in the order of the sends.         *)
(***************************************************************************)
\* the frames in bytes from offset from on, by their length prefixes: the
\* body and the offset of the end of each
RECURSIVE SplitFrames(_, _)
SplitFrames(bytes, from) ==
    LET len == VarIntDecode(Drop(bytes, from))
        end == from + len.used + len.value
    IN  IF ~ len.ok THEN <<>>
        ELSE IF len.value < 0 \/ end > Len(bytes) THEN <<>>
        ELSE <<[body |-> SubSeq(bytes, from + len.used + 1, end), end |-> end]>>
             \o SplitFrames(bytes, end)

C13_HandledInOrder ==
    \A c \in Conns :
        LET handled == SelectSeq(log[c], IsFrame)
            arrived == SplitFrames(inbound[c].bytes, 0)
            written == SelectSeq(log[c], IsSend)
        IN  /\ Len(handled) <= Len(arrived)
            /\ \A k \in 1..Len(handled) :
                  handled[k].id = VarIntDecode(arrived[k].body).value
            /\ (pc[c] = "running" /\ handled # <<>>) =>
                  inbound[c].read = arrived[Len(handled)].end
            /\ Len(written) = Len(out[c])
            /\ \A k \in 1..Len(out[c]) :
                  written[k].name = out[c][k].name /\ written[k].id = out[c][k].id
            /\ wire[c] = Flatten([k \in 1..Len(out[c]) |-> FrameBytes(out[c][k])])

\* a connection in Play after eight frames, six of which had no answer;
\* what was written starts with Login Success and ends with the three
\* packets of the entry into Play
C13_Witness ==
    \E c \in Conns :
        /\ pc[c] = "running" /\ state[c] = "Play"
        /\ Len(SelectSeq(log[c], IsFrame)) = 8
        /\ Len(out[c]) > 4
        /\ out[c][1].name = "Login Success"
        /\ out[c][Len(out[c])].name = "Synchronize Player Position"
        /\ wire[c] # <<>>

(***************************************************************************)
(* C14.  Statement of the claim: the position of the stream after a frame  *)
(* that arrived whole is the byte after its declared length, whatever the  *)
(* decoder read of the body, and a frame whose body does not decode is     *)
(* passed over likewise: the connection is reading the next frame from     *)
(* there.  The first part holds of the program (the body is copied into a  *)
(* buffer of its own, main.rs 167-171).  The second fails by the unwraps   *)
(* of C12: the task ends in the frame whose body does not decode, and no   *)
(* next frame is read.                                                     *)
(***************************************************************************)
\* the frames taken from the stream of c so far
Taken(c) ==
    SelectSeq(SplitFrames(inbound[c].bytes, 0),
              LAMBDA f : f.end <= inbound[c].read)

\* the task of c ended in a frame that arrived whole: its packet id or its
\* body did not decode
DecodeFailed(c) ==
    /\ pc[c] = "panicked"
    /\ log[c][Len(log[c])] \in {PanicEntry(145), PanicEntry(172)}

C14_BoundaryByLengthAlone ==
    \A c \in Conns :
        /\ ((pc[c] = "running" \/ DecodeFailed(c)) /\ Taken(c) # <<>>) =>
              inbound[c].read = Taken(c)[Len(Taken(c))].end
        /\ (pc[c] = "running" /\ Taken(c) = <<>>) => inbound[c].read = 0
        /\ ~ DecodeFailed(c)

(***************************************************************************)
(* C15.  The bytes written to the client split, by their length prefixes   *)
(* alone, into one frame for each packet sent and nothing more; the body   *)
(* of each frame is the VarInt of the packet's id followed by the          *)
(* encodings of its fields in the order of their declaration, and the      *)
(* prefix is the VarInt of the number of bytes of that body.               *)
(***************************************************************************)
C15_OutboundFraming ==
    \A c \in Conns :
        LET frames == SplitFrames(wire[c], 0)
        IN  /\ Len(frames) = Len(out[c])
            /\ (frames = <<>>) => wire[c] = <<>>
            /\ (frames # <<>>) => frames[Len(frames)].end = Len(wire[c])
            /\ \A k \in 1..Len(frames) :
                  LET start == IF k = 1 THEN 0 ELSE frames[k - 1].end
                      size == Len(frames[k].body)
                  IN  /\ frames[k].body = VarIntEncode(out[c][k].id)
                                           \o EncodeFields(out[c][k])
                      /\ SubSeq(wire[c], start + 1, frames[k].end - size)
                           = VarIntEncode(size)
                      \* Login Success of Steve: 24 bytes of id, uuid, name
                      \* and no properties
                      /\ out[c][k] = LoginSuccessPacket(1, Steve, <<>>) =>
                            SubSeq(wire[c], start + 1, frames[k].end)
                              = <<24, LoginSuccessPacket_ID>> \o Chars(15, 0)
                                \o <<1, 5>> \o Steve \o <<0>>

\* what was written holds a frame with a prefix of one byte, one with a
\* prefix of two bytes, and the frame of a packet with no field
C15_Witness ==
    \E c \in Conns :
        /\ \E k \in 1..Len(out[c]) : Len(Serialize(out[c][k])) \in 2..127
        /\ \E k \in 1..Len(out[c]) : Len(Serialize(out[c][k])) > 127
        /\ \E k \in 1..Len(out[c]) : EncodeFields(out[c][k]) = <<>>
        /\ wire[c] # <<>>

(***************************************************************************)
(* C16.  Once a frame was dispatched in Status, that frame and every later *)
(* frame of the connection is logged by the `_` branch in state Status,    *)
(* whatever its id; the state after each of them is Status; and the        *)
(* connection has never written a packet.                                  *)
(***************************************************************************)
C16_StatusTerminal ==
    \A c \in Conns :
        /\ state[c] = "Status" => out[c] = <<>> /\ wire[c] = <<>>
        /\ \A i \in FrameIdx(c) :
              log[c][i].state = "Status" =>
                  /\ log[c][i].dir = "???"
                  /\ Section(c, i) = <<>>
                  /\ StateAfter(c, i) = "Status"
                  /\ \A j \in FrameIdx(c) : j > i => log[c][j].state = "Status"
                  /\ out[c] = <<>>

\* a connection in Status has dropped a status request (0x00), a ping
\* (0x01) and a frame of another id, and is reading on
C16_Witness ==
    \E c \in Conns :
        /\ pc[c] = "running" /\ state[c] = "Status"
        /\ \A id \in {0, 1, 7} :
              \E i \in FrameIdx(c) : log[c][i].state = "Status" /\ log[c][i].id = id

(***************************************************************************)
(* C17.  With two connections whose tasks interleave in every way, the     *)
(* state, the player and the packets written of a running connection are   *)
(* those a connection on its own has after the frames this connection has  *)
(* taken from its stream, with its own verify token; a connection that     *)
(* has taken no frame is as it was accepted.                               *)
(***************************************************************************)
\* what a connection that starts with state st, player pl and packets
\* written outs may have, all by itself, when it has handled the frames of
\* these bodies and is reading on
RECURSIVE Alone(_, _, _, _, _)
Alone(st, pl, outs, token, bodies) ==
    IF bodies = <<>> THEN { [state |-> st, player |-> pl, out |-> outs] }
    ELSE LET id == VarIntDecode(Head(bodies))
             arms == { ArmOutcome(st, pl, token, id.value,
                                  Drop(Head(bodies), id.used), http) :
                       http \in HttpAnswers }
         IN  IF ~ id.ok THEN {}
             ELSE UNION { IF o.end # "running" THEN {}
                          ELSE Alone(o.state, o.player,
                                     outs \o [i \in 1..Len(o.sends) |-> o.sends[i].pkt],
                                     token, Tail(bodies)) : o \in arms }

C17_NoInterference ==
    \A c \in DOMAIN pc :
        pc[c] = "running" =>
            [state |-> state[c], player |-> player[c], out |-> out[c]]
                \in Alone("Handshaking", NoPlayer, <<>>, sent_verify_token[c],
                          [k \in 1..Len(Taken(c)) |-> Taken(c)[k].body])

\* one connection is in Play as Steve while the other, accepted before it
\* and sent the same frames, has handled none of them
C17_Witness ==
    \E c \in DOMAIN pc : \E d \in DOMAIN pc :
        /\ c # d
        /\ pc[c] = "running" /\ state[c] = "Play"
        /\ player[c].username = Some(Steve)
        /\ pc[d] = "running" /\ state[d] = "Handshaking"
        /\ inbound[d].bytes = inbound[c].bytes
        /\ inbound[d].read = 0
        /\ out[d] = <<>>

(***************************************************************************)
(* C18.  Decoding the bytes VarInt::encode wrote for an i32 v gives v      *)
(* back and consumes exactly the written bytes, whatever follows them in   *)
(* the reader.                                                             *)
(***************************************************************************)
C18_VarIntRoundTrip ==
    (codec.stage = "decoded" /\ codec.kind = "VarInt") =>
        /\ codec.result.ok
        /\ codec.result.value = codec.value
        /\ codec.result.used = Len(codec.bytes)

C18_Witness ==
    /\ codec.stage = "decoded" /\ codec.kind = "VarInt"
    /\ codec.value = MinI32
    /\ codec.rest # <<>>
    /\ codec.result.value = MinI32

(***************************************************************************)
(* C19.  Decoding the bytes VarLong::encode wrote for an i64 v gives v     *)
(* back and consumes exactly the written bytes, whatever follows them in   *)
(* the reader.                                                             *)
(***************************************************************************)
C19_VarLongRoundTrip ==
    (codec.stage = "decoded" /\ codec.kind = "VarLong") =>
        /\ codec.result.ok
        /\ codec.result.value = codec.value
        /\ codec.result.used = Len(codec.bytes)

\* i64::MIN, ten bytes on the wire, read back with bytes following
C19_Witness ==
    /\ codec.stage = "decoded" /\ codec.kind = "VarLong"
    /\ codec.value = [i \in 1..64 |-> IF i = 64 THEN 1 ELSE 0]
    /\ codec.rest # <<>>
    /\ codec.result.ok /\ codec.result.used = 10

(***************************************************************************)
(* C20.  The bytes written for a VarInt or VarLong are the shortest        *)
(* little-endian base-128 form of the value's two's-complement bit         *)
(* pattern: 1..5 bytes (VarInt) or 1..10 bytes (VarLong), bit 7 set in     *)
(* every byte but the last, group k of 7 bits in byte k, no final zero     *)
(* byte unless it is the only byte, and every negative value at the full   *)
(* length; 25565 gives dd c7 01, -1 gives ff ff ff ff 0f and -2147483648   *)
(* gives 80 80 80 80 08.                                                   *)
(***************************************************************************)
\* bit i (1 the lowest) of the value written, as an unsigned pattern
PatternBit(i) ==
    IF codec.kind = "VarLong" THEN (IF i <= 64 THEN codec.value[i] ELSE 0)
    ELSE IF i > 32 THEN 0
    ELSE IF i = 32 THEN (IF codec.value < 0 THEN 1 ELSE 0)
    ELSE IF codec.value < 0 THEN ((codec.value - MinI32) \div (2 ^ (i - 1))) % 2
    ELSE (codec.value \div (2 ^ (i - 1))) % 2

\* bit i of the pattern the written bytes spell, 0 past their end
WrittenBit(i) ==
    LET k == ((i - 1) \div 7) + 1
    IN  IF k > Len(codec.bytes) THEN 0
        ELSE (codec.bytes[k] \div (2 ^ ((i - 1) % 7))) % 2

C20_ShortestForm ==
    codec.stage \in {"encoded", "decoded"} =>
        LET b == codec.bytes
            full == IF codec.kind = "VarInt" THEN 5 ELSE 10
            negative == IF codec.kind = "VarInt" THEN codec.value < 0
                        ELSE codec.value[64] = 1
        IN  /\ Len(b) \in 1..full
            /\ \A k \in 1..Len(b) : b[k] \in 0..255
            /\ \A k \in 1..(Len(b) - 1) : b[k] >= 128
            /\ b[Len(b)] < 128
            /\ Len(b) > 1 => b[Len(b)] # 0
            /\ \A i \in 1..70 : WrittenBit(i) = PatternBit(i)
            /\ negative => Len(b) = full
            /\ (codec.kind = "VarInt" /\ codec.value = 25565) => b = <<221, 199, 1>>
            /\ (codec.kind = "VarInt" /\ codec.value = -1) => b = <<255, 255, 255, 255, 15>>
            /\ (codec.kind = "VarInt" /\ codec.value = MinI32) => b = <<128, 128, 128, 128, 8>>

C20_Witness ==
    /\ codec.stage = "encoded"
    /\ codec.kind = "VarInt"
    /\ codec.value = 25565
    /\ codec.bytes = <<221, 199, 1>>

(***************************************************************************)
(* C21.  VarInt::decode reads at most 5 bytes and VarLong::decode at most  *)
(* 10.  When the first 5 (10) bytes all have the continuation bit the     *)
(* result is InvalidData after exactly that many bytes; when the reader    *)
(* ends before a byte without the bit it is UnexpectedEof; otherwise the   *)
(* call succeeds on the bytes up to the first one without the bit.         *)
(***************************************************************************)
\* how many bytes at the start of bytes have the continuation bit
RECURSIVE LeadingRun(_)
LeadingRun(bytes) ==
    IF bytes = <<>> THEN 0
    ELSE IF Head(bytes) < 128 THEN 0
    ELSE 1 + LeadingRun(Tail(bytes))

\* the result r of a decode of at most most bytes on bytes
BoundedRead(bytes, r, most) ==
    /\ r.used <= most
    /\ IF LeadingRun(bytes) >= most
       THEN ~ r.ok /\ r.err = "InvalidData" /\ r.used = most
       ELSE IF LeadingRun(bytes) = Len(bytes)
       THEN ~ r.ok /\ r.err = "UnexpectedEof" /\ r.used = Len(bytes)
       ELSE r.ok /\ r.used = LeadingRun(bytes) + 1

C21_DecodeBounded ==
    /\ Done("VarInt::decode") => BoundedRead(codec.arg, codec.result, 5)
    /\ Done("VarLong::decode") => BoundedRead(codec.arg, codec.result, 10)

\* six continuation bytes and a last byte were given to VarInt::decode, or
\* eleven and a last byte to VarLong::decode, and the call failed
C21_Witness ==
    \/ /\ Done("VarInt::decode")
       /\ codec.arg = Chars(6, 128) \o <<0>>
       /\ ~ codec.result.ok
    \/ /\ Done("VarLong::decode")
       /\ codec.arg = Chars(11, 255) \o <<0>>
       /\ ~ codec.result.ok

(***************************************************************************)
(* C22.  BoundedString::<MAX>::new succeeds exactly on the texts of at     *)
(* most MAX and at most 32767 UTF-16 code units and at most MAX*3+3 UTF-8  *)
(* bytes, returning the text, and fails with InvalidData on the others     *)
(* (BoundedString::<16> on 17 units); decode on the encoding of a text     *)
(* succeeds exactly on these texts too, and fails with InvalidData on      *)
(* bytes that are no UTF-8.                                                *)
(***************************************************************************)
\* the UTF-16 code units and the UTF-8 bytes of a text of code points
Utf16Units(s) == Len(s) + Cardinality({i \in 1..Len(s) : s[i] >= 65536})
Utf8Bytes(s) ==
    Len(s) + Cardinality({i \in 1..Len(s) : s[i] >= 128})
    + Cardinality({i \in 1..Len(s) : s[i] >= 2048})
    + Cardinality({i \in 1..Len(s) : s[i] >= 65536})

Within(MAX, s) ==
    Utf16Units(s) <= MAX /\ Utf16Units(s) <= 32767 /\ Utf8Bytes(s) <= (MAX * 3) + 3

C22_BoundedStringBounds ==
    /\ Done("BoundedString::new") =>
          /\ codec.result.ok <=> Within(codec.arg.max, codec.arg.s)
          /\ codec.result.ok => codec.result.value = codec.arg.s
          /\ ~ codec.result.ok => codec.result.err = "InvalidData"
    /\ Done("BoundedString::decode") =>
          /\ codec.result.ok => Within(codec.arg.max, codec.result.value)
          /\ \A s \in StringSamples : \A rest \in Trailing :
                codec.arg.bytes = BoundedStringEncode(s) \o rest =>
                    /\ codec.result.ok <=> Within(codec.arg.max, s)
                    /\ codec.result.ok =>
                          codec.result.value = s /\ codec.result.rest = rest
                    /\ ~ codec.result.ok => codec.result.err = "InvalidData"
          /\ \A bad \in BadUtf8 :
                codec.arg.bytes = ByteArrayOf(bad) =>
                    ~ codec.result.ok /\ codec.result.err = "InvalidData"

\* BoundedString::<16>::new has failed on a text of 17 code units
C22_Witness ==
    /\ Done("BoundedString::new")
    /\ codec.arg.max = 16
    /\ Utf16Units(codec.arg.s) = 17
    /\ ~ codec.result.ok

(***************************************************************************)
(* C23.  BoundedPrefixedArray<T, MAX>: an encode of more than MAX elements *)
(* fails with InvalidData and writes nothing; a decode whose prefix N is   *)
(* above MAX fails with InvalidData right after the prefix, before any     *)
(* element; for 0 <= N <= MAX a decode of a stream holding N elements      *)
(* reads exactly these N elements.                                         *)
(***************************************************************************)
\* n > MAX and n <= MAX as numbers, n below 2^31
AboveMax(n, MAX) ==
    /\ \A i \in 32..64 : MAX[i] = 0
    /\ n > SumSeq([i \in 1..31 |-> MAX[i] * (2 ^ (i - 1))])

C23_ArrayBounded ==
    /\ Done("BoundedPrefixedArray::encode") =>
          /\ AboveMax(Len(codec.arg.items), codec.arg.max) =>
                /\ ~ codec.result.ok
                /\ codec.result.err = "InvalidData"
                /\ codec.result.written = <<>>
    /\ Done("BoundedPrefixedArray::decode") =>
          LET N == codec.arg.size
              prefix == Len(VarIntEncode(N))
              elements == Drop(codec.arg.bytes, prefix)
          IN  /\ AboveMax(N, codec.arg.max) =>
                    /\ ~ codec.result.ok
                    /\ codec.result.err = "InvalidData"
                    /\ codec.result.used = prefix
                    /\ codec.result.read = 0
              /\ 0 <= N /\ ~ AboveMax(N, codec.arg.max) /\ Len(elements) >= N =>
                    /\ codec.result.ok
                    /\ codec.result.value = Take(elements, N)
                    /\ codec.result.used = prefix + N

(***************************************************************************)
(* C24.  bool encodes as the single byte 0x00 (false) or 0x01 (true);      *)
(* decode reads one byte and gives false for 0x00, true for 0x01 and an    *)
(* InvalidData error for every byte 0x02 .. 0xFF.                          *)
(***************************************************************************)
C24_BoolStrict ==
    /\ Done("bool::encode") =>
          codec.result.written = (IF codec.arg THEN <<1>> ELSE <<0>>)
    /\ Done("bool::decode") /\ codec.arg # <<>> =>
          /\ codec.arg[1] = 0 => codec.result.ok /\ codec.result.value = FALSE
          /\ codec.arg[1] = 1 => codec.result.ok /\ codec.result.value = TRUE
          /\ codec.arg[1] >= 2 => ~ codec.result.ok /\ codec.result.err = "InvalidData"
          /\ codec.result.ok => Len(codec.result.rest) = Len(codec.arg) - 1

\* bool::decode has failed on the byte 0xFF
C24_Witness ==
    /\ Done("bool::decode")
    /\ codec.arg = <<255>>
    /\ ~ codec.result.ok

(***************************************************************************)
(* C25.  The unprefixed byte tail (Vec<u8>, read to the end of the frame)  *)
(* is the last thing in its frame, so every packet round-trips: a          *)
(* RegistryData packet, with two entries that both carry data in           *)
(* particular, deserializes from its serialized bytes to the same          *)
(* registry id and the same entries.                                       *)
(***************************************************************************)
C25_RegistryDataRoundTrips ==
    Done("RegistryDataPacket round trip") =>
        /\ codec.result.ok
        /\ codec.result.pkt = codec.arg

(***************************************************************************)
(* C26.  For x and z in [-2^25, 2^25) and y in [-2^11, 2^11),              *)
(* Position::encode writes the big-endian 64-bit word                      *)
(* ((x & 0x3FFFFFF) << 38) | ((z & 0x3FFFFFF) << 12) | (y & 0xFFF), and    *)
(* decode of these bytes gives the same x, y and z, negative ones          *)
(* included.                                                               *)
(***************************************************************************)
\* bit i (from 1, lowest first) of the packed word of a position: 12 bits
\* of y, then 26 of z, then 26 of x
PackedBit(p, i) ==
    IF i <= 12 THEN ((p.y % 4096) \div (2 ^ (i - 1))) % 2
    ELSE IF i <= 38 THEN ((p.z % 67108864) \div (2 ^ (i - 13))) % 2
    ELSE ((p.x % 67108864) \div (2 ^ (i - 39))) % 2

\* byte j (from 1, highest first) of the packed word
PackedByte(p, j) ==
    SumSeq([k \in 1..8 |-> PackedBit(p, (8 * (8 - j)) + k) * (2 ^ (k - 1))])

InPositionRange(p) ==
    /\ -33554432 <= p.x /\ p.x < 33554432
    /\ -33554432 <= p.z /\ p.z < 33554432
    /\ -2048 <= p.y /\ p.y < 2048

C26_PositionRoundTrip ==
    Done("Position round trip") /\ InPositionRange(codec.arg) =>
        /\ codec.result.written = [j \in 1..8 |-> PackedByte(codec.arg, j)]
        /\ codec.result.decoded.ok
        /\ codec.result.decoded.value = codec.arg
        /\ codec.result.decoded.rest = <<>>

\* a position with three negative coordinates has gone through encode and
\* decode
C26_Witness ==
    /\ Done("Position round trip")
    /\ codec.arg = [x |-> -33554432, y |-> -2048, z |-> -1]
    /\ codec.result.decoded.ok

(***************************************************************************)
(* C27.  Every NBT tag other than End round-trips: Tag::decode_binary on   *)
(* the bytes of Tag::encode_binary gives a tag structurally equal to the   *)
(* encoded one, nested Lists and non-empty Compounds included.             *)
(***************************************************************************)
\* structural equality: a Compound is the map of its entries
RECURSIVE SameTag(_, _)
SameTag(a, b) ==
    /\ a.type = b.type
    /\ IF a.type = TagType_Compound
       THEN /\ Len(a.value) = Len(b.value)
            /\ \A i \in 1..Len(a.value) : \E j \in 1..Len(b.value) :
                  /\ a.value[i].name = b.value[j].name
                  /\ SameTag(a.value[i].tag, b.value[j].tag)
       ELSE IF a.type = TagType_List
       THEN /\ a.value.elem = b.value.elem
            /\ Len(a.value.items) = Len(b.value.items)
            /\ \A i \in 1..Len(a.value.items) : SameTag(a.value.items[i], b.value.items[i])
       ELSE a.value = b.value

C27_TagRoundTrips ==
    Done("Tag round trip") =>
        /\ codec.result.ok
        /\ SameTag(codec.result.value, codec.arg)
        /\ codec.result.rest = <<>>

(***************************************************************************)
(* C28.  A Compound payload is, for each entry, the tag-type byte, the     *)
(* name (u16 length and bytes) and the payload, and then one 0x00 byte:    *)
(* decoding the 'hello world' sample gives the compound "hello world"      *)
(* with the entry name = "Bananrama", and encoding the result again in     *)
(* the traditional framing gives the bytes of the sample.                  *)
(***************************************************************************)
C28_CompoundReencodes ==
    Done("NamedTag re-encode") /\ codec.arg = HelloWorldNbt =>
        /\ codec.result.decoded.ok
        /\ codec.result.decoded.value = Some(NamedTag(HelloWorld, HelloCompound))
        /\ codec.result.written = codec.arg

(***************************************************************************)
(* C29.  Decoding an NBT root, traditional or network, whose first byte is *)
(* 0x00 (type End) fails with InvalidData and never gives a successful     *)
(* result.                                                                 *)
(***************************************************************************)
C29_RootEndRejected ==
    (/\ Done("NamedTag::decode_binary") \/ Done("NamedTag::decode_binary_from_network")
     /\ codec.arg # <<>>) =>
        (codec.arg[1] = TagType_End =>
            ~ codec.result.ok /\ codec.result.err = "InvalidData")

(***************************************************************************)
(* C30.  The network framing is the traditional one without the slot of    *)
(* the root name: NamedTag("", t) encodes as the type byte, 00 00 and the  *)
(* payload in the traditional framing and as the type byte and the same    *)
(* payload in the network framing; the network decode reads no name bytes  *)
(* and gives the name "" and the tag the traditional decode gives for the  *)
(* corresponding bytes.                                                    *)
(***************************************************************************)
C30_NetworkFraming ==
    Done("NamedTag framings") =>
        LET r == codec.result
            payload == Drop(r.network, 1)
        IN  /\ r.network = <<codec.arg.type>> \o payload
            /\ r.traditional = <<codec.arg.type, 0, 0>> \o payload
            /\ r.from_network.ok /\ r.from_traditional.ok
            /\ r.from_network.value # None /\ r.from_traditional.value # None
            /\ r.from_network.value[1].name = <<>>
            /\ r.from_traditional.value[1].name = <<>>
            /\ r.from_network.value[1].tag = r.from_traditional.value[1].tag
            /\ r.from_network.rest = r.from_traditional.rest

\* a list of lists has gone through both framings
C30_Witness ==
    /\ Done("NamedTag framings")
    /\ codec.arg.type = TagType_List
    /\ codec.arg.value.elem = TagType_List
    /\ codec.result.from_network.ok
    /\ codec.result.from_network.value # None

(***************************************************************************)
(* C31.  Every List that Tag::decode_binary returns is homogeneous: each   *)
(* tag in it, at every depth, has the element type the List declares; a    *)
(* List that declares the element type End with a positive length is       *)
(* rejected.                                                               *)
(***************************************************************************)
RECURSIVE Homogeneous(_)
Homogeneous(t) ==
    IF t.type = TagType_List
    THEN \A i \in 1..Len(t.value.items) :
            t.value.items[i].type = t.value.elem /\ Homogeneous(t.value.items[i])
    ELSE IF t.type = TagType_Compound
    THEN \A i \in 1..Len(t.value) : Homogeneous(t.value[i].tag)
    ELSE TRUE

C31_ListsHomogeneous ==
    Done("Tag::decode_binary") =>
        /\ codec.result.ok => Homogeneous(codec.result.value)
        /\ codec.arg.elem = TagType_End /\ codec.arg.len > 0 =>
              ~ codec.result.ok /\ codec.result.err = "InvalidData"

\* a List of two Lists has been decoded
C31_Witness ==
    /\ Done("Tag::decode_binary")
    /\ codec.result.ok
    /\ codec.result.value.value.elem = TagType_List
    /\ Len(codec.result.value.value.items) = 2

(***************************************************************************)
(* C32.  Every ResourceLocation / Identifier obtained from a constructor   *)
(* or from decoding has a namespace of one or more characters of           *)
(* [a-z0-9._-] and a path of one or more characters of [a-z0-9/._-]; a     *)
(* string without a colon gets the namespace minecraft; a string is split  *)
(* at its first colon; try_from(to_string(r)) gives r again.               *)
(***************************************************************************)
HasColon(s) == \E i \in 1..Len(s) : s[i] = Colon
FirstColon(s) == CHOOSE i \in 1..Len(s) : s[i] = Colon /\ \A j \in 1..(i - 1) : s[j] # Colon

\* the namespace and the path a key string stands for
NamespaceOf(s) == IF HasColon(s) THEN SubSeq(s, 1, FirstColon(s) - 1) ELSE Minecraft
PathOf(s) == IF HasColon(s) THEN SubSeq(s, FirstColon(s) + 1, Len(s)) ELSE s

WellFormedKey(namespace, path) ==
    /\ namespace # <<>> /\ \A i \in 1..Len(namespace) : NamespaceChar(namespace[i])
    /\ path # <<>> /\ \A i \in 1..Len(path) : PathChar(path[i])

\* the part of the statement about ResourceLocation
C32_ResourceLocationPart ==
    /\ Done("ResourceLocation::from") /\ codec.result.ok =>
          /\ WellFormedKey(codec.result.value.namespace, codec.result.value.path)
          /\ codec.result.value = [namespace |-> codec.arg.namespace, path |-> codec.arg.path]
    /\ Done("ResourceLocation::try_from") /\ codec.result.first.ok =>
          /\ WellFormedKey(codec.result.first.value.namespace,
                           codec.result.first.value.path)
          /\ codec.result.first.value.namespace = NamespaceOf(codec.arg)
          /\ codec.result.first.value.path = PathOf(codec.arg)
          /\ codec.result.again = codec.result.first

\* the part about Identifier
C32_IdentifierPart ==
    Done("Identifier::decode") /\ codec.result.ok =>
        WellFormedKey(NamespaceOf(codec.result.value.namespaced_value),
                      PathOf(codec.result.value.namespaced_value))

C32_KeysWellFormed == C32_ResourceLocationPart /\ C32_IdentifierPart

(***************************************************************************)
(* C33.  For every enum declared via a backing codec: encode writes the    *)
(* declared discriminant through the backing codec; decode of a backing    *)
(* value equal to a declared discriminant returns that variant, so         *)
(* decode(encode(e)) = e; decode of any other backing value fails with     *)
(* InvalidData.  Intent decodes only from the VarInts 1, 2 and 3.          *)
(***************************************************************************)
\* the variants of an enum whose declared discriminant is id
Declared(e, id) ==
    {v \in 1..Len(EnumDecls[e].variants) : EnumDecls[e].variants[v].discriminant = id}

C33_EnumCodec ==
    /\ Done("enum round trip") =>
          LET declared == EnumDecls[codec.arg.enum].variants[codec.arg.variant]
          IN  \* every discriminant of the repository is one byte in each
              \* backing codec: itself, or its two's complement
              /\ codec.result.bytes = <<declared.discriminant % 256>>
              /\ codec.result.back.ok
              /\ codec.result.back.value = declared.ident
              /\ codec.result.back.rest = <<>>
    /\ Done("enum decode") /\ ~ codec.arg.cut =>
          LET declared == Declared(codec.arg.enum, codec.arg.id)
          IN  /\ declared # {} =>
                    /\ codec.result.ok
                    /\ \E v \in declared :
                          codec.result.value = EnumDecls[codec.arg.enum].variants[v].ident
              /\ declared = {} =>
                    ~ codec.result.ok /\ codec.result.err = "InvalidData"
              /\ EnumDecls[codec.arg.enum].name = "Intent" =>
                    /\ codec.result.ok <=> codec.arg.id \in {1, 2, 3}
                    /\ codec.result.ok =>
                          codec.result.value = IntentDecode(codec.arg.id).value

\* GameMode has been decoded from the byte ff
C33_Witness ==
    /\ Done("enum decode")
    /\ ~ codec.arg.cut
    /\ EnumDecls[codec.arg.enum].name = "GameMode"
    /\ codec.arg.id = -1
    /\ codec.result.ok
    /\ codec.result.value = "Undefined"

(***************************************************************************)
(* C34.  For every string the NBT encoder writes (tag names and String     *)
(* payloads) the u16 big-endian length prefix equals the number of UTF-8   *)
(* bytes written after it; this holds for strings of 65536 bytes or more   *)
(* too, or else encoding them is refused.                                  *)
(***************************************************************************)
PrefixValue(prefix) == (prefix[1] * 256) + prefix[2]

C34_PrefixIsLength ==
    /\ Done("String::encode_binary") =>
          PrefixValue(codec.result.prefix) = codec.result.following
    /\ Done("NamedTag::encode_binary") =>
          \* after the name comes the one byte of the Byte payload
          PrefixValue(codec.result.prefix) = codec.result.following - 1

\* the same for the strings below 65536 bytes
C34_ShortStrings ==
    /\ Done("String::encode_binary") /\ codec.result.following < 65536 =>
          PrefixValue(codec.result.prefix) = codec.result.following
    /\ Done("NamedTag::encode_binary") /\ codec.result.following - 1 < 65536 =>
          PrefixValue(codec.result.prefix) = codec.result.following - 1

(***************************************************************************)
(* C35.  The state of a connection changes only by a Handshake handled in  *)
(* Handshaking, a LoginAcknowledged handled in Login and an                *)
(* AcknowledgeFinishConfiguration handled in Configuration; every other    *)
(* pair of state and packet id leaves it as it is.  The state moves        *)
(* forward only, Handshaking -> {Status | Login} -> Configuration -> Play: *)
(* it never returns and never leaves Status or Play.                       *)
(***************************************************************************)
\* the three steps of the state, with the packet that takes each
StateSteps ==
    { [from |-> "Handshaking", name |-> "Handshake", id |-> HandshakePacket_ID,
       to |-> to] : to \in {"Status", "Login"} }
    \cup { [from |-> "Login", name |-> "Login Acknowledged",
            id |-> LoginAcknowledgedPacket_ID, to |-> "Configuration"],
           [from |-> "Configuration", name |-> "Acknowledge Finish Configuration",
            id |-> AcknowledgeFinishConfigurationPacket_ID, to |-> "Play"] }

\* this step has handled a frame of c that takes the state from `from` to `to`
TakesStep(c, from, to) ==
    /\ Len(log'[c]) > Len(log[c])
    /\ LET frame == log'[c][Len(log[c]) + 1]
       IN  /\ frame.dir = "C->S"
           /\ frame.state = from
           /\ [from |-> from, name |-> frame.name, id |-> frame.id, to |-> to]
                 \in StateSteps

C35_StateMovesForward ==
    [][\A c \in Conns :
          /\ state'[c] # state[c] =>
                \* the construction of the Connection, or one of the three steps
                \/ pc[c] = "idle" /\ state'[c] = "Handshaking"
                \/ TakesStep(c, state[c], state'[c])
          /\ state[c] \in {"Status", "Play"} => state'[c] = state[c]]_vars

\* a connection has taken the three steps and then handled a ClientTickEnd
\* in Play
C35_Witness ==
    \E c \in Conns :
        /\ state[c] = "Play"
        /\ \E i \in FrameIdx(c) : IsPacket(c, i, "Handshake", "Handshaking")
        /\ \E i \in FrameIdx(c) : IsPacket(c, i, "Login Acknowledged", "Login")
        /\ \E i \in FrameIdx(c) :
              IsPacket(c, i, "Acknowledge Finish Configuration", "Configuration")
        /\ \E i \in FrameIdx(c) : IsPacket(c, i, "Client Tick End", "Play")

(***************************************************************************)
(* C36.  Every LoginSuccess written carries the username and uuid of the   *)
(* most recent LoginStart processed on that connection, and none is        *)
(* written before a LoginStart was processed: an EncryptionResponse that   *)
(* arrives first never produces one.  A repeated LoginStart in Login is    *)
(* accepted, overwrites the recorded username and uuid and produces        *)
(* another LoginSuccess.                                                   *)
(***************************************************************************)
\* the LoginStart frames of c up to frame i
LoginStarts(c, i) == {j \in FrameIdx(c) : j <= i /\ IsPacket(c, j, "Login Start", "Login")}

\* the most recent of them
LastLoginStart(c, i) == CHOOSE j \in LoginStarts(c, i) : \A k \in LoginStarts(c, i) : k <= j

C36_LoginSuccessOfLastStart ==
    \A c \in Conns :
        /\ \A i \in FrameIdx(c) :
              /\ \A k \in 1..Len(Sent(c, i)) :
                    Sent(c, i)[k].name = "Login Success" =>
                        /\ LoginStarts(c, i) # {}
                        /\ Sent(c, i)[k].username = log[c][LastLoginStart(c, i)].data.name
                        /\ Sent(c, i)[k].uuid = log[c][LastLoginStart(c, i)].data.player_uuid
              /\ IsPacket(c, i, "Encryption Response", "Login") /\ LoginStarts(c, i) = {} =>
                    Sent(c, i) = <<>>
              /\ IsPacket(c, i, "Login Start", "Login") /\ ~ WriteFailed(c, i) =>
                    /\ ~ Panicked(c, i)
                    /\ Sent(c, i) = << LoginSuccessPacket(log[c][i].data.player_uuid,
                                                         log[c][i].data.name, <<>>) >>
        \* every LoginSuccess is written while a frame is handled
        /\ Cardinality({k \in 1..Len(out[c]) : out[c][k].name = "Login Success"})
              = SumSeq([i \in 1..Len(log[c]) |->
                          IF IsSend(log[c][i]) /\ log[c][i].name = "Login Success"
                          THEN 1 ELSE 0])
        \* the recorded username and uuid are those of the last LoginStart
        /\ player[c] =
              IF pc[c] = "idle" \/ LoginStarts(c, Len(log[c])) = {} THEN NoPlayer
              ELSE [username |-> Some(log[c][LastLoginStart(c, Len(log[c]))].data.name),
                    uuid |-> Some(log[c][LastLoginStart(c, Len(log[c]))].data.player_uuid)]

\* two LoginStarts of different names, each answered, and then an
\* EncryptionResponse answered with the LoginSuccess of the second
C36_Witness ==
    \E c \in Conns : \E i, j, k \in FrameIdx(c) :
        /\ i < j /\ j < k
        /\ IsPacket(c, i, "Login Start", "Login")
        /\ IsPacket(c, j, "Login Start", "Login")
        /\ log[c][i].data.name # log[c][j].data.name
        /\ Len(Sent(c, i)) = 1 /\ Len(Sent(c, j)) = 1
        /\ IsPacket(c, k, "Encryption Response", "Login")
        /\ Sent(c, k) = << LoginSuccessPacket(log[c][j].data.player_uuid,
                                              log[c][j].data.name, <<>>) >>

(***************************************************************************)
(* C37.  A LoginAcknowledged moves Login to Configuration whether or not a *)
(* LoginStart was processed or a LoginSuccess sent; an                     *)
(* AcknowledgeFinishConfiguration moves Configuration to Play, and         *)
(* triggers the three Play packets, whether or not ClientInformation or    *)
(* KnownPacks were processed or FinishConfiguration sent.  So Play is      *)
(* reachable with no username or uuid recorded and no RegistryData sent.   *)
(***************************************************************************)
\* the names of the packets written while frame i was handled
SentNames(c, i) == [k \in 1..Len(Sent(c, i)) |-> Sent(c, i)[k].name]

C37_NoPrerequisites ==
    \A c \in Conns : \A i \in FrameIdx(c) :
        \* whatever the frames before i and the packets written before it
        /\ IsPacket(c, i, "Login Acknowledged", "Login") =>
              StateAfter(c, i) = "Configuration"
        /\ IsPacket(c, i, "Acknowledge Finish Configuration", "Configuration") =>
              /\ StateAfter(c, i) = "Play"
              /\ ~ WriteFailed(c, i) =>
                    SentNames(c, i) = <<"Login", "Game Event", "Synchronize Player Position">>

\* a connection is in Play after a Handshake, a LoginAcknowledged and an
\* AcknowledgeFinishConfiguration alone: nothing is recorded of the player
\* and the three Play packets are all that was written
C37_Witness ==
    \E c \in Conns :
        /\ state[c] = "Play"
        /\ pc[c] = "running"
        /\ player[c] = NoPlayer
        /\ Cardinality(FrameIdx(c)) = 3
        /\ [k \in 1..Len(out[c]) |-> out[c][k].name]
              = <<"Login", "Game Event", "Synchronize Player Position">>

(***************************************************************************)
(* C38.  Statement of the claim: a frame length prefix that decodes to a   *)
(* negative 32-bit value (such as ff ff ff ff 0f) is handled as a framing  *)
(* failure, through the same loop exit as an invalid length VarInt: the    *)
(* loop breaks, no body buffer of the value taken as an unsigned size is   *)
(* allocated or read, and no packet is dispatched.  The program violates   *)
(* it: the value is cast to usize and given to vec!, whose capacity        *)
(* overflow is a panic in line 167.                                        *)
(***************************************************************************)
\* the task of c is about to read a frame whose length is negative
NegativeLength(c) ==
    pc[c] = "running" /\ FrameLength(c).ok /\ FrameLength(c).value < 0

\* the task of c is about to read a length VarInt of more than five bytes
InvalidLength(c) ==
    pc[c] = "running" /\ ~ FrameLength(c).ok /\ FrameLength(c).err = "InvalidData"

\* this step of the task of c is the break of the loop
LoopBreaks(c) == pc'[c] = "closed" /\ log'[c] = log[c]

\* this step reads no body and dispatches no packet
NothingDispatched(c) ==
    /\ inbound'[c].read = inbound[c].read + FrameLength(c).used
    /\ \A k \in (Len(log[c]) + 1)..Len(log'[c]) : ~ IsFrame(log'[c][k])
    /\ out'[c] = out[c] /\ state'[c] = state[c] /\ player'[c] = player[c]

C38_NegativeLengthBreaks ==
    [][\A c \in Conns :
          NegativeLength(c) /\ pc'[c] # pc[c] =>
              LoopBreaks(c) /\ NothingDispatched(c)]_vars

\* what the program does on an invalid and on a negative length: the break
\* on the first, the end of the task on the second, no dispatch on either
C38_NegativeLengthEndsTask ==
    [][\A c \in Conns :
          /\ InvalidLength(c) /\ pc'[c] # pc[c] => LoopBreaks(c) /\ NothingDispatched(c)
          /\ NegativeLength(c) /\ pc'[c] # pc[c] =>
                /\ pc'[c] = "panicked"
                /\ log'[c] = Append(log[c], PanicEntry(167))
                /\ NothingDispatched(c)]_vars

(***************************************************************************)
(* C39.  Statement of the claim: every decoder of a value with a VarInt    *)
(* length prefix (BoundedString, PrefixedArray, BoundedPrefixedArray)      *)
(* returns an InvalidData error, without allocating for or reading any     *)
(* payload, when the prefix is negative; the bound test N > MAX of         *)
(* BoundedPrefixedArray does not let a negative N through to the element   *)
(* loop.  The program violates it: none of the three tests the sign, each  *)
(* casts the prefix to usize and asks for a buffer of that size, which is  *)
(* a capacity overflow panic.                                              *)
(***************************************************************************)
\* the bytes start with the VarInt of a negative i32: five bytes, the
\* fifth with the bit of 2^31
NegativePrefix(bytes) ==
    /\ Len(bytes) >= 5
    /\ \A i \in 1..4 : bytes[i] >= 128
    /\ bytes[5] < 128 /\ (bytes[5] \div 8) % 2 = 1

LengthPrefixed == {"BoundedString::decode", "PrefixedArray::decode",
                   "BoundedPrefixedArray::decode"}

C39_NegativeLengthRefused ==
    \A op \in LengthPrefixed :
        Done(op) /\ NegativePrefix(codec.arg.bytes) =>
            ~ codec.result.ok /\ codec.result.err = "InvalidData"

\* what the program does: a panic, and no payload byte read
C39_NegativeLengthPanics ==
    \A op \in LengthPrefixed :
        Done(op) /\ NegativePrefix(codec.arg.bytes) =>
            /\ ~ codec.result.ok
            \* MAX as i32 is negative for some MAX of 2^31 and more
            /\ IF op = "BoundedPrefixedArray::decode"
                  /\ \E i \in 32..64 : codec.arg.max[i] = 1
               THEN codec.result.err \in {"InvalidData", "panic"}
               ELSE codec.result.err = "panic"
            /\ op # "BoundedString::decode" => codec.result.read = 0

(***************************************************************************)
(* C40.  Statement of the claim: for every byte sequence b that            *)
(* VarInt::decode accepts, encode(decode(b)) = b.  decode accepts the      *)
(* canonical encoding of a value only: it rejects the over-long forms      *)
(* (such as 80 00) and a fifth byte with one of the payload bits 4..6,     *)
(* which do not fit in 32 bits.  The program violates it: the loop tests   *)
(* neither, so 80 00 decodes to 0 and ff ff ff ff 7f to -1.                *)
(***************************************************************************)
C40_DecodeCanonicalOnly ==
    Done("VarInt re-encode") /\ codec.result.decoded.ok =>
        codec.result.again = Take(codec.arg, codec.result.decoded.used)

\* what holds of the program: the bytes of encode are accepted and come
\* back, and whatever is accepted re-encodes to bytes that are no longer
\* and decode to the same value
C40_ReencodeSameValue ==
    Done("VarInt re-encode") =>
        /\ codec.arg \in Canonical =>
              codec.result.decoded.ok /\ codec.result.again = codec.arg
        /\ codec.result.decoded.ok =>
              /\ Len(codec.result.again) <= codec.result.decoded.used
              /\ VarIntDecode(codec.result.again).value = codec.result.decoded.value

====
